---- MODULE Spec2Model ----
(***************************************************************************)
(* Model of the deterministic analytics engine of the Cashflow backend     *)
(* (app/services/pandas_analytics_service.py) and of the numeric helpers   *)
(* of the dashboard endpoint (app/api/v1/endpoints/dashboard.py).          *)
(*                                                                         *)
(* Text is a sequence of one-character strings, so that lowercasing,       *)
(* character removal, substring tests and number parsing are computed      *)
(* character by character as the code does.  A number is a decimal         *)
(* [m, e] standing for m / 10^e, kept normalised (no trailing zero in the  *)
(* fraction); NaN is a value of its own.  Money inside the engine is an    *)
(* integer count of tenths (FixScale), scenario balances are counted in    *)
(* thousandths (FixScale * PctScale), which keeps the percentage           *)
(* multipliers exact.                                                      *)
(***************************************************************************)
EXTENDS Integers, Sequences, FiniteSets, TLC

(***************************************************************************)
(* Bounds of the model.                                                    *)
(***************************************************************************)
MaxCellLen == 5
MaxNameLen == 3
MaxDocs == 2
MaxRows == 2

(***************************************************************************)
(* Text helpers.                                                           *)
(***************************************************************************)
Digits == <<"0", "1", "2", "3", "4", "5", "6", "7", "8", "9">>

UpperChars == <<"A", "B", "C", "D", "E", "F", "G", "H", "I", "J", "K", "L", "M",
                "N", "O", "P", "Q", "R", "S", "T", "U", "V", "W", "X", "Y", "Z">>

LowerChars == <<"a", "b", "c", "d", "e", "f", "g", "h", "i", "j", "k", "l", "m",
                "n", "o", "p", "q", "r", "s", "t", "u", "v", "w", "x", "y", "z">>

DigitValue == [c \in {Digits[i] : i \in 1..10} |-> (CHOOSE i \in 1..10 : Digits[i] = c) - 1]

IsDigit(c) == c \in DOMAIN DigitValue

DigitVal(c) == DigitValue[c]

LowerOf == [c \in {UpperChars[i] : i \in 1..26} |->
              LowerChars[CHOOSE i \in 1..26 : UpperChars[i] = c]]

\* str.lower() on one character
LowerChar(c) == IF c \in DOMAIN LowerOf THEN LowerOf[c] ELSE c

\* str.lower()
Lower(s) == [i \in 1..Len(s) |-> LowerChar(s[i])]

\* removal of every character of the set chars: str.replace(c, ''),
\* Series.str.replace(r'[$,]', '', regex=True), re.sub
RemoveChars(s, chars) == SelectSeq(s, LAMBDA c : c \notin chars)

\* Python's  sub in s
Contains(s, sub) ==
    \E i \in 0..(Len(s) - Len(sub)) : SubSeq(s, i + 1, i + Len(sub)) = sub

\* the texts over an alphabet of length at most n
RECURSIVE TextsUpTo(_, _)
TextsUpTo(alphabet, n) ==
    IF n = 0 THEN {<<>>}
    ELSE LET shorter == TextsUpTo(alphabet, n - 1)
         IN  shorter \cup {Append(t, c) : t \in shorter, c \in alphabet}

(***************************************************************************)
(* Numbers.                                                                *)
(***************************************************************************)
RECURSIVE Pow10(_)
Pow10(n) == IF n <= 0 THEN 1 ELSE 10 * Pow10(n - 1)

\* float('nan')
NaN == [nan |-> TRUE, m |-> 0, e |-> 0]

\* the decimal m / 10^e, normalised
RECURSIVE Dec(_, _)
Dec(m, e) ==
    IF e > 0 /\ m % 10 = 0 THEN Dec(m \div 10, e - 1)
    ELSE [nan |-> FALSE, m |-> m, e |-> e]

Zero == Dec(0, 0)

Abs(n) == IF n < 0 THEN -n ELSE n

RECURSIVE DigitsValue(_)
DigitsValue(s) ==
    IF s = <<>> THEN 0
    ELSE 10 * DigitsValue(SubSeq(s, 1, Len(s) - 1)) + DigitVal(s[Len(s)])

RECURSIVE FormatNat(_)
FormatNat(n) ==
    IF n < 10 THEN <<Digits[n + 1]>>
    ELSE Append(FormatNat(n \div 10), Digits[(n % 10) + 1])

\* the e digits of the fraction f, zero padded on the left
RECURSIVE FormatFraction(_, _)
FormatFraction(f, e) ==
    IF e = 0 THEN <<>>
    ELSE Append(FormatFraction(f \div 10, e - 1), Digits[(f % 10) + 1])

(***************************************************************************)
(* Cells of a row: the JSON scalars of CSVDocumentDetail.full_data         *)
(* (string, integer, float, null).                                         *)
(***************************************************************************)
StrCell(s) == [k |-> "str", s |-> s, v |-> NaN]
IntCell(n) == [k |-> "int", s |-> <<>>, v |-> Dec(n, 0)]
FloatCell(m, e) == [k |-> "float", s |-> <<>>, v |-> Dec(m, e)]
NoneCell == [k |-> "none", s |-> <<>>, v |-> NaN]
\* the float NaN that pandas puts where a row has no value for a column
Missing == [k |-> "float", s |-> <<>>, v |-> NaN]

WhiteSpace == {" ", "\t", "\n"}

RECURSIVE LStrip(_)
LStrip(s) == IF s # <<>> /\ s[1] \in WhiteSpace THEN LStrip(Tail(s)) ELSE s

RECURSIVE RStrip(_)
RStrip(s) ==
    IF s # <<>> /\ s[Len(s)] \in WhiteSpace THEN RStrip(SubSeq(s, 1, Len(s) - 1)) ELSE s

\* digits with at most one decimal point and at least one digit
DecimalText(s) ==
    /\ \A i \in 1..Len(s) : IsDigit(s[i]) \/ s[i] = "."
    /\ Cardinality({i \in 1..Len(s) : s[i] = "."}) <= 1
    /\ \E i \in 1..Len(s) : IsDigit(s[i])

DecimalValue(s) ==
    LET dots == {i \in 1..Len(s) : s[i] = "."}
        e == IF dots = {} THEN 0 ELSE Len(s) - (CHOOSE i \in dots : TRUE)
    IN  Dec(DigitsValue(RemoveChars(s, {"."})), e)

\* str(value) of Python
py_str(cell) ==
    CASE cell.k = "str" -> cell.s
      [] cell.k = "none" -> <<"N", "o", "n", "e">>
      [] cell.v.nan -> <<"n", "a", "n">>
      [] cell.k = "int" ->
            (IF cell.v.m < 0 THEN <<"-">> ELSE <<>>) \o FormatNat(Abs(cell.v.m))
      [] OTHER ->
            LET a == Abs(cell.v.m)
                p == Pow10(cell.v.e)
            IN  (IF cell.v.m < 0 THEN <<"-">> ELSE <<>>)
                \o FormatNat(a \div p) \o <<".">>
                \o (IF cell.v.e = 0 THEN <<"0">> ELSE FormatFraction(a % p, cell.v.e))

\* Parsing of a decimal literal with optional sign and surrounding blanks,
\* as float() and the pandas numeric parser accept it.  (Exponents, "inf",
\* "nan" and digit separators are outside the alphabets of the model.)
float_text(s) ==
    LET t == RStrip(LStrip(s))
        signed == t # <<>> /\ t[1] \in {"-", "+"}
        u == IF signed THEN Tail(t) ELSE t
        v == DecimalValue(u)
    IN  IF DecimalText(u)
        THEN [ok |-> TRUE,
              value |-> IF signed /\ t[1] = "-" THEN Dec(-v.m, v.e) ELSE v]
        ELSE [ok |-> FALSE, value |-> NaN]

\* pd.to_numeric(arg, errors=...) on one element
to_numeric(arg, errors) ==
    IF arg.k = "str"
    THEN LET p == float_text(arg.s)
         IN  IF p.ok THEN [raised |-> FALSE, value |-> p.value]
             ELSE IF errors = "coerce" THEN [raised |-> FALSE, value |-> NaN]
             ELSE [raised |-> TRUE, value |-> NaN]
    ELSE [raised |-> FALSE, value |-> arg.v]

\* One cell of the DataFrame returned by _data_to_df: in a column of dtype
\* object every element becomes its str() with '$' and ',' removed, in a
\* numeric column a null is NaN.
data_to_df_cell(cell, isObject) ==
    IF isObject THEN StrCell(RemoveChars(py_str(cell), {"$", ","}))
    ELSE IF cell.k = "none" THEN Missing
    ELSE cell

\* df[c].replace(r'[$,]', '', regex=True).apply(pd.to_numeric, errors=e).fillna(0)
\* on one element
coerce_with(dfcell, errors) ==
    LET cleaned == IF dfcell.k = "str" THEN StrCell(RemoveChars(dfcell.s, {"$", ","}))
                   ELSE dfcell
        r == to_numeric(cleaned, errors)
    IN  [raised |-> r.raised, value |-> IF r.value.nan THEN Zero ELSE r.value]

\* a faulty variant of the coercion that lets pd.to_numeric raise
coerce_raising(dfcell) == coerce_with(dfcell, "raise")

coerce_numeric(dfcell) == coerce_with(dfcell, "coerce")

\* float(clean) of Python for a text of digits, '.' and '-'
py_float(clean) ==
    LET p == float_text(clean)
    IN  [raised |-> ~p.ok, value |-> p.value]

\* dashboard._to_float
to_float(value) ==
    LET clean == SelectSeq(py_str(value), LAMBDA c : IsDigit(c) \/ c \in {".", "-"})
        body ==
            IF value.k = "none" THEN [raised |-> FALSE, value |-> Zero]
            ELSE IF value.k \in {"int", "float"} THEN [raised |-> FALSE, value |-> value.v]
            ELSE IF clean = <<>> THEN [raised |-> FALSE, value |-> Zero]
            ELSE py_float(clean)
    IN  IF body.raised THEN [raised |-> FALSE, value |-> Zero] ELSE body

(***************************************************************************)
(* Documents.  A document is a record [filename, full_data]; full_data is  *)
(* the sequence of its rows, a row is a function from column names to      *)
(* cells.  A listing is a sequence of documents, most recent first.        *)
(***************************************************************************)
Document(filename, full_data) == [filename |-> filename, full_data |-> full_data]

Min(S) == CHOOSE x \in S : \A y \in S : x <= y

\* filename.lower().replace(" ", "")
NormalisedName(name) == RemoveChars(Lower(name), {" "})

\* a faulty variant of _find_document_by_name that falls back to the first document
find_document_or_first(docs, filename_part) ==
    LET target == NormalisedName(filename_part)
        hits == {i \in 1..Len(docs) :
                    LET current == NormalisedName(docs[i].filename)
                    IN  Contains(current, target) \/ Contains(target, current)}
    IN  IF hits = {} THEN (IF docs = <<>> THEN 0 ELSE 1) ELSE Min(hits)

\* a faulty variant of the lookup that returns the last match of the list
find_document_last_match(docs, filename_part) ==
    LET target == NormalisedName(filename_part)
        hits == {i \in 1..Len(docs) :
                    LET current == NormalisedName(docs[i].filename)
                    IN  Contains(current, target) \/ Contains(target, current)}
    IN  IF hits = {} THEN 0 ELSE CHOOSE i \in hits : \A j \in hits : j <= i

\* PandasAnalyticsService._find_document_by_name: the index of the document
\* returned, 0 for None
find_document_by_name(docs, filename_part) ==
    LET target == NormalisedName(filename_part)
        hits == {i \in 1..Len(docs) :
                    LET current == NormalisedName(docs[i].filename)
                    IN  Contains(current, target) \/ Contains(target, current)}
    IN  IF hits = {} THEN 0 ELSE Min(hits)

(***************************************************************************)
(* State.                                                                  *)
(***************************************************************************)
VARIABLES
    documents,      \* the listing of stored documents, most recent first
    call,           \* <<>> or <<the last call of an engine entry point>>
    filename_part,  \* the name looked up by _find_document_by_name
    found,          \* <<>> or <<index of the document found, 0 for None>>
    cell,           \* the raw cell handed to a numeric coercion
    coerced,        \* <<>> or <<outcome of the last coercion of cell>>
    uploads         \* the upload requests in flight or ended, one record each

vars == <<documents, call, filename_part, found, cell, coerced, uploads>>

(***************************************************************************)
(* Numeric coercion of one cell.                                           *)
(***************************************************************************)
CellAlphabet == {"1", "0", ".", "-", "$", ",", "%", " "}

NumberCells == {IntCell(0), IntCell(7), IntCell(-3), IntCell(1200), FloatCell(25, 1),
                FloatCell(-1205, 2), FloatCell(3, 0), NoneCell}

Cells == {StrCell(s) : s \in TextsUpTo(CellAlphabet, MaxCellLen)} \cup NumberCells

\* the coercion the engine applies to a cell of a numeric column, where
\* isObject tells whether the column holds a string
CoerceColumnCell(isObject) ==
    /\ coerced = <<>>
    /\ isObject \/ cell.k # "str"
    /\ coerced' = <<[by |-> "pandas", isObject |-> isObject]
                     @@ coerce_numeric(data_to_df_cell(cell, isObject))>>
    /\ UNCHANGED <<documents, call, filename_part, found, cell, uploads>>

ToFloat ==
    /\ coerced = <<>>
    /\ coerced' = <<[by |-> "_to_float", isObject |-> FALSE] @@ to_float(cell)>>
    /\ UNCHANGED <<documents, call, filename_part, found, cell, uploads>>

InitCoerce ==
    /\ cell \in Cells
    /\ coerced = <<>>
    /\ documents = <<>>
    /\ call = <<>>
    /\ filename_part = <<>>
    /\ found = <<>>
    /\ uploads = <<>>

NextCoerce ==
    \/ \E isObject \in BOOLEAN : CoerceColumnCell(isObject)
    \/ ToFloat

SpecCoerce == InitCoerce /\ [][NextCoerce]_vars

HasDigit(s) == \E i \in 1..Len(s) : IsDigit(s[i])

\* C6: numeric coercion of a cell never raises and always yields a number;
\* a string without any digit (the empty string, "$,.--", garbage), and any
\* string that is no decimal literal once '$' and ',' are removed, yields
\* 0.0; a null yields 0.0; an already-numeric value passes through unchanged.
C6_CoercionNeverRaises ==
    coerced # <<>> =>
        /\ ~coerced[1].raised
        /\ ~coerced[1].value.nan
        /\ cell.k = "str" /\ ~HasDigit(cell.s) => coerced[1].value = Zero
        /\ ( /\ cell.k = "str"
             /\ coerced[1].by = "pandas"
             /\ ~float_text(RemoveChars(cell.s, {"$", ","})).ok ) => coerced[1].value = Zero
        /\ cell.k = "none" => coerced[1].value = Zero
        /\ cell.k \in {"int", "float"} => coerced[1].value = cell.v

\* the cell "$,.--" has gone through the engine's coercion
C6_Witness ==
    /\ coerced # <<>>
    /\ coerced[1].by = "pandas"
    /\ cell = StrCell(<<"$", ",", ".", "-", "-">>)

(***************************************************************************)
(* Lookup of a document by name.                                           *)
(***************************************************************************)
NameAlphabet == {"a", "A", " ", "\t"}

CsvExtension == <<".", "c", "s", "v">>

\* stems of stored file names; validate_file admits a name only with an
\* allowed extension, and csv_documents.filename is unique
FileStems == {<<"a">>, <<"A">>, <<"a", "a">>, <<"A", " ", "a">>, <<"a", "\t", "A">>,
              <<"\t">>, <<"a", "A", "a">>, <<" ", "a">>}

FileNames == {stem \o CsvExtension : stem \in FileStems}

RECURSIVE ListingsOf(_, _)
ListingsOf(names, n) ==
    IF n = 0 THEN {<<>>}
    ELSE LET shorter == ListingsOf(names, n - 1)
         IN  shorter \cup
             {Append(l, Document(f, <<>>)) :
                 l \in {x \in shorter : Len(x) = n - 1},
                 f \in names}

DistinctNames(docs) ==
    \A i, j \in 1..Len(docs) : docs[i].filename = docs[j].filename => i = j

TargetNames ==
    LET texts == TextsUpTo(NameAlphabet, MaxNameLen)
    IN  texts \cup {t \o CsvExtension : t \in texts}

FindDocumentByName ==
    /\ found = <<>>
    /\ found' = <<find_document_by_name(documents, filename_part)>>
    /\ UNCHANGED <<documents, call, filename_part, cell, coerced, uploads>>

InitLocator ==
    /\ documents \in {l \in ListingsOf(FileNames, MaxDocs) : DistinctNames(l)}
    /\ call = <<>>
    /\ filename_part \in TargetNames
    /\ found = <<>>
    /\ cell = NoneCell
    /\ coerced = <<>>
    /\ uploads = <<>>

NextLocator == FindDocumentByName

SpecLocator == InitLocator /\ [][NextLocator]_vars

\* lowercasing and removal of all whitespace
WhitespaceNormalised(name) == RemoveChars(Lower(name), WhiteSpace)

NameContains(doc, part) ==
    Contains(WhitespaceNormalised(doc.filename), WhitespaceNormalised(part))

NameOverlaps(doc, part) ==
    \/ NameContains(doc, part)
    \/ Contains(WhitespaceNormalised(part), WhitespaceNormalised(doc.filename))

\* C4: a document is matched whenever, after lowercasing and removing all
\* whitespace from both names, the target is a substring of a filename or a
\* filename is a substring of the target.
C4_MatchesUpToCaseAndWhitespace ==
    ( /\ found # <<>>
      /\ \E i \in 1..Len(documents) : NameOverlaps(documents[i], filename_part) )
    => found[1] # 0

\* C5 as claimed: None is returned whenever no normalised filename contains
\* the normalised target.
C5_AbsentWhenNoFilenameContainsTarget ==
    ( /\ found # <<>>
      /\ \A i \in 1..Len(documents) : ~NameContains(documents[i], filename_part) )
    => found[1] = 0

\* C5 as amended: None is returned whenever no normalised filename contains
\* the normalised target and no normalised filename is contained in it.
C5_AbsentWhenNoOverlap ==
    ( /\ found # <<>>
      /\ \A i \in 1..Len(documents) : ~NameOverlaps(documents[i], filename_part) )
    => found[1] = 0

\* a lookup among two documents neither of which overlaps the target
C5_Witness ==
    /\ found # <<>>
    /\ Len(documents) = 2
    /\ filename_part # <<>>
    /\ \A i \in 1..Len(documents) : ~NameOverlaps(documents[i], filename_part)

(***************************************************************************)
(* DataFrames.  A frame is a record [columns, object, rows]: the set of    *)
(* column names, the columns of dtype object, and the rows as functions    *)
(* from the columns to cells.                                              *)
(***************************************************************************)
\* decimal to tenths; the engine's inputs carry at most one decimal place
FixScale == Pow10(1)

Fix(d) ==
    IF d.e <= 1 THEN d.m * (FixScale \div Pow10(d.e))
    ELSE CHOOSE x \in {} : TRUE

RECURSIVE SumSeq(_)
SumSeq(s) == IF s = <<>> THEN 0 ELSE s[1] + SumSeq(Tail(s))

Columns(data) == UNION {DOMAIN data[i] : i \in 1..Len(data)}

\* pd.DataFrame(data) gives dtype object to a column that holds a string,
\* or nothing but nulls
IsObjectColumn(data, c) ==
    \/ \E i \in 1..Len(data) : c \in DOMAIN data[i] /\ data[i][c].k = "str"
    \/ \A i \in 1..Len(data) : c \in DOMAIN data[i] => data[i][c].k = "none"

EmptyFrame == [columns |-> {}, object |-> {}, rows |-> <<>>]

\* PandasAnalyticsService._data_to_df
data_to_df(data) ==
    IF data = <<>> THEN EmptyFrame
    ELSE [columns |-> Columns(data),
          object |-> {c \in Columns(data) : IsObjectColumn(data, c)},
          rows |-> [i \in 1..Len(data) |->
                      [c \in Columns(data) |->
                          data_to_df_cell(IF c \in DOMAIN data[i] THEN data[i][c]
                                          ELSE Missing,
                                          IsObjectColumn(data, c))]]]

\* DataFrame.empty
IsEmpty(df) == df.columns = {} \/ df.rows = <<>>

\* a faulty variant of the column coercion in which one unparsable cell voids the
\* whole column
numeric_column_all_or_nothing(df, c) ==
    IF \E i \in 1..Len(df.rows) : to_numeric(df.rows[i][c], "coerce").value.nan
    THEN [i \in 1..Len(df.rows) |-> 0]
    ELSE [i \in 1..Len(df.rows) |-> Fix(coerce_numeric(df.rows[i][c]).value)]

\* df[c].replace(r'[$,]', '', regex=True).apply(pd.to_numeric, errors='coerce').fillna(0),
\* in tenths
numeric_column(df, c) ==
    [i \in 1..Len(df.rows) |-> Fix(coerce_numeric(df.rows[i][c]).value)]

\* pd.to_numeric(df[c], errors='coerce').fillna(0), in tenths
to_numeric_column(df, c) ==
    [i \in 1..Len(df.rows) |->
        LET r == to_numeric(df.rows[i][c], "coerce")
        IN  Fix(IF r.value.nan THEN Zero ELSE r.value)]

\* df[c].astype(str) on one element
astype_str(dfcell) == py_str(dfcell)

\* Series.str.contains(pat, case=False, na=False) on one element, for a
\* pattern without regular-expression operators
str_contains_nocase(text, pat) == Contains(Lower(text), Lower(pat))

(***************************************************************************)
(* Names of the source documents and of the lookups.                       *)
(***************************************************************************)
FILE_BANK_SUMMARY == <<"E", "l", "e", "c", "t", "r", "i", "c", "i", "t", "y", " ", "P", "r", "o", "v", "i", "d", "e", "r", " ", "B", "a", "n", "k", " ", "S", "t", "a", "t", "e", "m", "e", "n", "t", "s", "(", "S", "u", "m", "m", "a", "r", "y", " ", "b", "y", " ", "T", "y", "p", "e", ")", ".", "c", "s", "v">>
FILE_CASH_FLOW_ANALYSIS == <<"E", "l", "e", "c", "t", "r", "i", "c", "i", "t", "y", " ", "P", "r", "o", "v", "i", "d", "e", "r", " ", "C", "u", "s", "t", "o", "m", "e", "r", " ", "P", "a", "y", "m", "e", "n", "t", "s", " ", "F", "o", "r", "e", "c", "a", "s", "t", "(", "C", "a", "s", "h", " ", "F", "l", "o", "w", " ", "A", "n", "a", "l", "y", "s", "i", "s", ")", ".", "c", "s", "v">>
FILE_AR_RECORDS == <<"E", "l", "e", "c", "t", "r", "i", "c", "i", "t", "y", "_", "P", "r", "o", "v", "i", "d", "e", "r", "_", "A", "R", " ", " ", "R", "e", "c", "o", "r", "d", "s", "-", "0", "2", "1", "4", "2", "0", "2", "6", " ", "2", "(", "E", "l", "e", "c", "t", "r", "i", "c", "i", "t", "y", " ", "A", "R", " ", "R", "e", "c", "o", "r", "d", "s", ")", ".", "c", "s", "v">>
FILE_EXPENSE_FORECAST == <<"E", "l", "e", "c", "t", "r", "i", "c", "i", "t", "y", " ", "P", "r", "o", "v", "i", "d", "e", "r", " ", "E", "x", "p", "e", "n", "s", "e", " ", "F", "o", "r", "e", "c", "a", "s", "t", "(", "M", "o", "n", "t", "h", "l", "y", " ", "S", "u", "m", "m", "a", "r", "y", ")", ".", "c", "s", "v">>
FILE_MONTHLY_FORECAST == <<"E", "l", "e", "c", "t", "r", "i", "c", "i", "t", "y", " ", "P", "r", "o", "v", "i", "d", "e", "r", " ", "C", "u", "s", "t", "o", "m", "e", "r", " ", "P", "a", "y", "m", "e", "n", "t", "s", " ", "F", "o", "r", "e", "c", "a", "s", "t", "(", "M", "o", "n", "t", "h", "l", "y", " ", "F", "o", "r", "e", "c", "a", "s", "t", ")", ".", "c", "s", "v">>

PART_BANK_SUMMARY == <<"B", "a", "n", "k", "S", "t", "a", "t", "e", "m", "e", "n", "t", "s", "(", "S", "u", "m", "m", "a", "r", "y", "b", "y", "T", "y", "p", "e", ")">>
PART_CASH_FLOW_ANALYSIS == <<"C", "u", "s", "t", "o", "m", "e", "r", "P", "a", "y", "m", "e", "n", "t", "s", "F", "o", "r", "e", "c", "a", "s", "t", "(", "C", "a", "s", "h", "F", "l", "o", "w", "A", "n", "a", "l", "y", "s", "i", "s", ")">>
PART_AR_RECORDS == <<"A", "R", "R", "e", "c", "o", "r", "d", "s">>
PART_EXPENSE_FORECAST == <<"E", "x", "p", "e", "n", "s", "e", "F", "o", "r", "e", "c", "a", "s", "t", "(", "M", "o", "n", "t", "h", "l", "y", "S", "u", "m", "m", "a", "r", "y", ")">>
PART_MONTHLY_FORECAST == <<"C", "u", "s", "t", "o", "m", "e", "r", "P", "a", "y", "m", "e", "n", "t", "s", "F", "o", "r", "e", "c", "a", "s", "t", "(", "M", "o", "n", "t", "h", "l", "y", "F", "o", "r", "e", "c", "a", "s", "t", ")">>

JAN_2025 == <<"J", "a", "n", " ", "2", "0", "2", "5">>
OUTSTANDING == <<"O", "u", "t", "s", "t", "a", "n", "d", "i", "n", "g">>
PARTIAL_PAYMENT == <<"P", "a", "r", "t", "i", "a", "l", " ", "P", "a", "y", "m", "e", "n", "t">>

\* the document a lookup returns, or the one without rows for None
NoDocument == Document(<<>>, <<>>)

Located(docs, part) ==
    LET i == find_document_by_name(docs, part)
    IN  IF i = 0 THEN NoDocument ELSE docs[i]

(***************************************************************************)
(* PandasAnalyticsService.calculate_stats.  Amounts are in tenths.         *)
(***************************************************************************)
RUNWAY_CAP_DAYS == 3650
RUNWAY_CAPPED == 9999
RUNWAY_SECURE == 999
DAYS_PER_MONTH == 30

\* 1. current cash position: sum('Net Amount') of the bank summary
stats_current(docs) ==
    LET doc_bank == Located(docs, PART_BANK_SUMMARY)
        df == data_to_df(doc_bank.full_data)
    IN  IF doc_bank.full_data # <<>> /\ "Net Amount" \in df.columns
        THEN SumSeq(numeric_column(df, "Net Amount"))
        ELSE 0

\* a faulty variant of the 30 day forecast that takes the last matching row
stats_forecast30Day_last(docs) ==
    LET doc_forecast == Located(docs, PART_CASH_FLOW_ANALYSIS)
        df == data_to_df(doc_forecast.full_data)
        flow == numeric_column(df, "Net Cash Flow")
        forecast_row == {i \in 1..Len(df.rows) :
                            str_contains_nocase(astype_str(df.rows[i]["Month"]), JAN_2025)}
    IN  IF /\ doc_forecast.full_data # <<>>
           /\ "Month" \in df.columns
           /\ "Net Cash Flow" \in df.columns
           /\ forecast_row # {}
        THEN flow[CHOOSE i \in forecast_row : \A j \in forecast_row : j <= i]
        ELSE 0

\* 2. 30 day forecast: 'Net Cash Flow' of the first row whose 'Month' matches
stats_forecast30Day(docs) ==
    LET doc_forecast == Located(docs, PART_CASH_FLOW_ANALYSIS)
        df == data_to_df(doc_forecast.full_data)
        flow == numeric_column(df, "Net Cash Flow")
        forecast_row == {i \in 1..Len(df.rows) :
                            str_contains_nocase(astype_str(df.rows[i]["Month"]), JAN_2025)}
    IN  IF /\ doc_forecast.full_data # <<>>
           /\ "Month" \in df.columns
           /\ "Net Cash Flow" \in df.columns
           /\ forecast_row # {}
        THEN flow[Min(forecast_row)]
        ELSE 0

\* a faulty variant of the at-risk figures that also takes the rows whose
\* status is 'Overdue'
stats_at_risk_with_overdue(docs) ==
    LET doc_ar == Located(docs, PART_AR_RECORDS)
        df == data_to_df(doc_ar.full_data)
        days == to_numeric_column(df, "Days Past Due")
        balance == numeric_column(df, "Balance Due")
        mask == {i \in 1..Len(df.rows) :
                    /\ df.rows[i]["Status"].k = "str"
                    /\ df.rows[i]["Status"].s \in {OUTSTANDING, PARTIAL_PAYMENT, <<"O", "v", "e", "r", "d", "u", "e">>}
                    /\ days[i] > 0}
        at_risk_df == SelectSeq([i \in 1..Len(df.rows) |-> IF i \in mask THEN <<balance[i]>> ELSE <<>>],
                                LAMBDA x : x # <<>>)
    IN  IF /\ doc_ar.full_data # <<>>
           /\ {"Status", "Days Past Due", "Balance Due"} \subseteq df.columns
        THEN [atRiskInvoices |-> SumSeq([i \in 1..Len(at_risk_df) |-> at_risk_df[i][1]]),
              overdueInvoicesCount |-> Len(at_risk_df)]
        ELSE [atRiskInvoices |-> 0, overdueInvoicesCount |-> 0]

\* 3. at-risk invoices: [atRiskInvoices, overdueInvoicesCount]
stats_at_risk(docs) ==
    LET doc_ar == Located(docs, PART_AR_RECORDS)
        df == data_to_df(doc_ar.full_data)
        days == to_numeric_column(df, "Days Past Due")
        balance == numeric_column(df, "Balance Due")
        mask == {i \in 1..Len(df.rows) :
                    /\ df.rows[i]["Status"].k = "str"
                    /\ df.rows[i]["Status"].s \in {OUTSTANDING, PARTIAL_PAYMENT}
                    /\ days[i] > 0}
        at_risk_df == SelectSeq([i \in 1..Len(df.rows) |-> IF i \in mask THEN <<balance[i]>> ELSE <<>>],
                                LAMBDA x : x # <<>>)
    IN  IF /\ doc_ar.full_data # <<>>
           /\ {"Status", "Days Past Due", "Balance Due"} \subseteq df.columns
        THEN [atRiskInvoices |-> SumSeq([i \in 1..Len(at_risk_df) |-> at_risk_df[i][1]]),
              overdueInvoicesCount |-> Len(at_risk_df)]
        ELSE [atRiskInvoices |-> 0, overdueInvoicesCount |-> 0]

\* a faulty variant of the cash runway that reports a runway of exactly
\* 3650 days as it is
stats_cash_runway_cap_above(docs, current) ==
    LET doc_expense == Located(docs, PART_EXPENSE_FORECAST)
        df == data_to_df(doc_expense.full_data)
        n == Len(df.rows)
        \* n times the average monthly burn
        burn_n == SumSeq(numeric_column(df, "Total Expenses"))
                  - SumSeq(numeric_column(df, "Estimated Revenue"))
    IN  IF /\ doc_expense.full_data # <<>>
           /\ {"Total Expenses", "Estimated Revenue"} \subseteq df.columns
        THEN IF burn_n > 0 /\ current > 0
             THEN IF current * n * DAYS_PER_MONTH <= RUNWAY_CAP_DAYS * burn_n
                  THEN (current * n * DAYS_PER_MONTH) \div burn_n
                  ELSE RUNWAY_CAPPED
             ELSE RUNWAY_SECURE
        ELSE 0

\* a faulty variant of the cash runway that reports 0 days when there is
\* a burn and no cash
stats_cash_runway_zero_without_cash(docs, current) ==
    LET doc_expense == Located(docs, PART_EXPENSE_FORECAST)
        df == data_to_df(doc_expense.full_data)
        n == Len(df.rows)
        burn_n == SumSeq(numeric_column(df, "Total Expenses"))
                  - SumSeq(numeric_column(df, "Estimated Revenue"))
    IN  IF /\ doc_expense.full_data # <<>>
           /\ {"Total Expenses", "Estimated Revenue"} \subseteq df.columns
        THEN IF burn_n > 0 /\ current > 0
             THEN IF current * n * DAYS_PER_MONTH < RUNWAY_CAP_DAYS * burn_n
                  THEN (current * n * DAYS_PER_MONTH) \div burn_n
                  ELSE RUNWAY_CAPPED
             ELSE IF burn_n > 0 THEN 0
             ELSE RUNWAY_SECURE
        ELSE 0

\* 4. cash runway in days: current / (mean expenses - mean revenue) * 30
stats_cash_runway(docs, current) ==
    LET doc_expense == Located(docs, PART_EXPENSE_FORECAST)
        df == data_to_df(doc_expense.full_data)
        n == Len(df.rows)
        \* n times the average monthly burn
        burn_n == SumSeq(numeric_column(df, "Total Expenses"))
                  - SumSeq(numeric_column(df, "Estimated Revenue"))
    IN  IF /\ doc_expense.full_data # <<>>
           /\ {"Total Expenses", "Estimated Revenue"} \subseteq df.columns
        THEN IF burn_n > 0 /\ current > 0
             THEN IF current * n * DAYS_PER_MONTH < RUNWAY_CAP_DAYS * burn_n
                  THEN (current * n * DAYS_PER_MONTH) \div burn_n
                  ELSE RUNWAY_CAPPED
             ELSE RUNWAY_SECURE
        ELSE 0

\* a faulty variant of calculate_stats that gives up when the bank summary is absent
calculate_stats_or_give_up(docs) ==
    LET present == Located(docs, PART_BANK_SUMMARY).full_data # <<>>
        current == stats_current(docs)
        at_risk == stats_at_risk(docs)
    IN  [current |-> current,
         forecast30Day |-> IF present THEN stats_forecast30Day(docs) ELSE 0,
         atRiskInvoices |-> IF present THEN at_risk.atRiskInvoices ELSE 0,
         cashRunway |-> IF present THEN stats_cash_runway(docs, current) ELSE 0,
         currentChangePercent |-> 0,
         forecastChangePercent |-> 0,
         overdueInvoicesCount |-> IF present THEN at_risk.overdueInvoicesCount ELSE 0]

calculate_stats(docs) ==
    LET current == stats_current(docs)
        at_risk == stats_at_risk(docs)
    IN  [current |-> current,
         forecast30Day |-> stats_forecast30Day(docs),
         atRiskInvoices |-> at_risk.atRiskInvoices,
         cashRunway |-> stats_cash_runway(docs, current),
         currentChangePercent |-> 0,
         forecastChangePercent |-> 0,
         overdueInvoicesCount |-> at_risk.overdueInvoicesCount]

(***************************************************************************)
(* PandasAnalyticsService.get_cash_forecast_data.  Amounts are in          *)
(* fortieths (a quarter of a tenth), a missing point is <<>>.              *)
(***************************************************************************)
WEEKS_PER_MONTH == 4
DEFAULT_WEEKLY_CHANGE == 400000

FORECAST_LABELS == <<<<"J", "a", "n", " ", "1">>, <<"J", "a", "n", " ", "8">>, <<"J", "a", "n", " ", "1", "5">>, <<"J", "a", "n", " ", "2", "2">>, <<"J", "a", "n", " ", "2", "9">>, <<"F", "e", "b", " ", "5">>,
                     <<"F", "e", "b", " ", "1", "2">>, <<"F", "e", "b", " ", "1", "9">>>>

\* a faulty variant of the monthly change that reads the last row
forecast_monthly_change_last(docs) ==
    LET doc_analysis == Located(docs, PART_CASH_FLOW_ANALYSIS)
        df == data_to_df(doc_analysis.full_data)
    IN  IF doc_analysis.full_data # <<>> /\ "Net Cash Flow" \in df.columns
        THEN numeric_column(df, "Net Cash Flow")[Len(df.rows)]
        ELSE 0

\* 'Net Cash Flow' of the first row (.iloc[0]) of the cash-flow analysis
forecast_monthly_change(docs) ==
    LET doc_analysis == Located(docs, PART_CASH_FLOW_ANALYSIS)
        df == data_to_df(doc_analysis.full_data)
    IN  IF doc_analysis.full_data # <<>> /\ "Net Cash Flow" \in df.columns
        THEN numeric_column(df, "Net Cash Flow")[1]
        ELSE 0

\* a faulty variant of get_cash_forecast_data whose forecast starts one point late
get_cash_forecast_data_no_overlap(docs) ==
    LET current_balance == stats_current(docs) * WEEKS_PER_MONTH
        monthly_change == forecast_monthly_change(docs)
        weekly_change == IF monthly_change # 0 THEN monthly_change
                         ELSE DEFAULT_WEEKLY_CHANGE * FixScale * WEEKS_PER_MONTH
        actual_data == [i \in 1..4 |-> current_balance + (i - 1) * weekly_change]
        forecast_vals == [i \in 1..4 |-> actual_data[4] + i * weekly_change]
        ds_actual == [i \in 1..4 |-> <<actual_data[i]>>] \o [i \in 1..4 |-> <<>>]
        ds_forecast == [i \in 1..4 |-> <<>>] \o [i \in 1..4 |-> <<forecast_vals[i]>>]
    IN  [labels |-> FORECAST_LABELS,
         datasets |-> <<[label |-> "Actual Cash", data |-> ds_actual],
                        [label |-> "Forecasted Cash", data |-> ds_forecast]>>]

get_cash_forecast_data(docs) ==
    LET current_balance == stats_current(docs) * WEEKS_PER_MONTH
        monthly_change == forecast_monthly_change(docs)
        weekly_change == IF monthly_change # 0 THEN monthly_change
                         ELSE DEFAULT_WEEKLY_CHANGE * FixScale * WEEKS_PER_MONTH
        actual_data == [i \in 1..4 |-> current_balance + (i - 1) * weekly_change]
        forecast_vals == [i \in 1..4 |-> actual_data[4] + i * weekly_change]
        ds_actual == [i \in 1..4 |-> <<actual_data[i]>>] \o [i \in 1..4 |-> <<>>]
        ds_forecast == [i \in 1..3 |-> <<>>] \o <<<<actual_data[4]>>>>
                       \o [i \in 1..4 |-> <<forecast_vals[i]>>]
    IN  [labels |-> FORECAST_LABELS,
         datasets |-> <<[label |-> "Actual Cash", data |-> ds_actual],
                        [label |-> "Forecasted Cash", data |-> ds_forecast]>>]

(***************************************************************************)
(* The documents of the repository's verification fixture                  *)
(* (reproduce_stats.py) and the listings explored around them.             *)
(***************************************************************************)
BankRow(date, description, amount, net) ==
    ("Date" :> StrCell(date)) @@ ("Description" :> StrCell(description))
    @@ ("Amount" :> StrCell(amount)) @@ ("Net Amount" :> StrCell(net))

mock_bank_data ==
    <<BankRow(<<"2", "0", "2", "5", "-", "0", "1", "-", "0", "1">>, <<"D", "e", "p", "o", "s", "i", "t">>, <<"1", "0", "0", "0">>, <<"1", "0", "0", "0", ".", "0", "0">>),
      BankRow(<<"2", "0", "2", "5", "-", "0", "1", "-", "1", "5">>, <<"W", "i", "t", "h", "d", "r", "a", "w", "a", "l">>, <<"-", "5", "0", "0">>, <<"5", "0", "0", ".", "0", "0">>),
      BankRow(<<"2", "0", "2", "5", "-", "0", "1", "-", "3", "0">>, <<"D", "e", "p", "o", "s", "i", "t">>, <<"2", "0", "0", "0">>, <<"2", "1", "0", "0", ".", "0", "0">>)>>

CollectionsRow(month, total, rate) ==
    ("Month" :> StrCell(month)) @@ ("Total Collections" :> StrCell(total))
    @@ ("Collection Rate %" :> StrCell(rate))

mock_monthly_collections ==
    <<CollectionsRow(<<"J", "a", "n", " ", "2", "0", "2", "5">>, <<"2", "0", "0", "0", "0">>, <<"7", "5", ".", "5", "%">>),
      CollectionsRow(<<"F", "e", "b", " ", "2", "0", "2", "5">>, <<"2", "5", "0", "0", "0">>, <<"7", "8", ".", "0", "%">>),
      CollectionsRow(<<"M", "a", "r", " ", "2", "0", "2", "5">>, <<"2", "2", "0", "0", "0">>, <<"7", "6", ".", "2", "%">>)>>

ExpenseRow(month, expenses, revenue) ==
    ("Month" :> StrCell(month)) @@ ("Total Expenses" :> StrCell(expenses))
    @@ ("Estimated Revenue" :> StrCell(revenue))

mock_expense_data ==
    <<ExpenseRow(<<"J", "a", "n", " ", "2", "0", "2", "5">>, <<"1", "8", "0", "0", "0">>, <<"2", "0", "0", "0", "0">>),
      ExpenseRow(<<"F", "e", "b", " ", "2", "0", "2", "5">>, <<"2", "0", "0", "0", "0">>, <<"2", "5", "0", "0", "0">>),
      ExpenseRow(<<"M", "a", "r", " ", "2", "0", "2", "5">>, <<"1", "9", "0", "0", "0">>, <<"2", "2", "0", "0", "0">>)>>

InvoiceRow(number, customer, status, days, balance, due) ==
    ("Invoice Number" :> StrCell(number)) @@ ("Customer Name" :> StrCell(customer))
    @@ ("Status" :> status) @@ ("Days Past Due" :> days)
    @@ ("Balance Due" :> balance) @@ ("Due Date" :> StrCell(due))

mock_ar_data ==
    <<InvoiceRow(<<"I", "N", "V", "0", "0", "1">>, <<"C", "u", "s", "t", "o", "m", "e", "r", " ", "A">>, StrCell(<<"O", "u", "t", "s", "t", "a", "n", "d", "i", "n", "g">>), StrCell(<<"3", "0">>),
                 StrCell(<<"1", "0", "0", "0", ".", "0", "0">>), <<"2", "0", "2", "5", "-", "0", "1", "-", "0", "1">>),
      InvoiceRow(<<"I", "N", "V", "0", "0", "2">>, <<"C", "u", "s", "t", "o", "m", "e", "r", " ", "B">>, StrCell(<<"P", "a", "i", "d">>), StrCell(<<"1", "0">>),
                 StrCell(<<"0", ".", "0", "0">>), <<"2", "0", "2", "5", "-", "0", "1", "-", "1", "5">>),
      InvoiceRow(<<"I", "N", "V", "0", "0", "3">>, <<"C", "u", "s", "t", "o", "m", "e", "r", " ", "C">>, StrCell(<<"P", "a", "r", "t", "i", "a", "l", " ", "P", "a", "y", "m", "e", "n", "t">>), StrCell(<<"5">>),
                 StrCell(<<"5", "0", "0", ".", "0", "0">>), <<"2", "0", "2", "5", "-", "0", "1", "-", "2", "0">>),
      InvoiceRow(<<"I", "N", "V", "0", "0", "4">>, <<"C", "u", "s", "t", "o", "m", "e", "r", " ", "D">>, StrCell(<<"O", "u", "t", "s", "t", "a", "n", "d", "i", "n", "g">>), StrCell(<<"0">>),
                 StrCell(<<"2", "0", "0", "0", ".", "0", "0">>), <<"2", "0", "2", "5", "-", "0", "2", "-", "0", "1">>)>>

CashFlowRow(month, net) ==
    ("Month" :> month) @@ ("Net Cash Flow" :> net)

mock_cash_flow_analysis ==
    <<CashFlowRow(StrCell(<<"D", "e", "c", " ", "2", "0", "2", "4">>), StrCell(<<"5", "0", "0", "0">>)),
      CashFlowRow(StrCell(<<"J", "a", "n", " ", "2", "0", "2", "5">>), StrCell(<<"5", "3", "5", "0", ".", "5", "0">>)),
      CashFlowRow(StrCell(<<"F", "e", "b", " ", "2", "0", "2", "5">>), StrCell(<<"6", "0", "0", "0">>))>>

\* the listing of test_pandas_analytics
FixtureDocuments ==
    <<Document(FILE_BANK_SUMMARY, mock_bank_data),
      Document(FILE_CASH_FLOW_ANALYSIS, mock_cash_flow_analysis),
      Document(FILE_MONTHLY_FORECAST, mock_monthly_collections),
      Document(FILE_EXPENSE_FORECAST, mock_expense_data),
      Document(FILE_AR_RECORDS, mock_ar_data)>>

\* the sequences over S of length at most n
SeqsUpTo(S, n) == UNION {[1..k -> S] : k \in 0..n}

\* the documents of a listing whose index is in keep, without the columns
\* named, per file name, in dropped
Restrict(docs, keep, dropped) ==
    LET view(d) == Document(d.filename,
                            [r \in 1..Len(d.full_data) |->
                                [c \in {x \in DOMAIN d.full_data[r] : <<d.filename, x>> \notin dropped}
                                    |-> d.full_data[r][c]]])
        marked == [i \in 1..Len(docs) |-> IF i \in keep THEN <<view(docs[i])>> ELSE <<>>]
        chosen == SelectSeq(marked, LAMBDA x : x # <<>>)
    IN  [i \in 1..Len(chosen) |-> chosen[i][1]]

\* the fixture with the rows of the document called filename replaced
WithRows(filename, data) ==
    [i \in 1..Len(FixtureDocuments) |->
        IF FixtureDocuments[i].filename = filename THEN Document(filename, data)
        ELSE FixtureDocuments[i]]

NetAmountCells ==
    {StrCell(<<"1", "0", "0", "0", ".", "0", "0">>), StrCell(<<"$", "1", ",", "2", "0", "0", ".", "5", "0">>), StrCell(<<"n", "/", "a">>), StrCell(<<>>),
     StrCell(<<"-", "2", "0", "0">>), IntCell(500), NoneCell}

BankRows == {("Net Amount" :> c) : c \in NetAmountCells}

MonthCells ==
    {StrCell(<<"J", "a", "n", " ", "2", "0", "2", "5">>), StrCell(<<"J", "A", "N", " ", "2", "0", "2", "5">>), StrCell(<<"J", "a", "n", ",", " ", "2", "0", "2", "5">>),
     StrCell(<<"F", "e", "b", " ", "2", "0", "2", "5">>), StrCell(<<"D", "e", "c", " ", "2", "0", "2", "4">>)}

NetCashFlowCells == {StrCell(<<"5", "3", "5", "0", ".", "5", "0">>), StrCell(<<"$", "6", ",", "0", "0", "0">>), StrCell(<<"n", "/", "a">>)}

CashFlowRows == {CashFlowRow(m, n) : m \in MonthCells, n \in NetCashFlowCells}

StatusCells ==
    {StrCell(<<"O", "u", "t", "s", "t", "a", "n", "d", "i", "n", "g">>), StrCell(<<"P", "a", "r", "t", "i", "a", "l", " ", "P", "a", "y", "m", "e", "n", "t">>), StrCell(<<"P", "a", "i", "d">>),
     StrCell(<<"O", "v", "e", "r", "d", "u", "e">>), StrCell(<<"O", "u", "t", "s", "t", "a", "n", "d", "i", "n", "g", ",">>)}

DaysPastDueCells == {StrCell(<<"4", "5">>), StrCell(<<"0">>), StrCell(<<"-", "3">>)}

BalanceDueCells == {StrCell(<<"1", "0", "0", "0", ".", "0", "0">>), StrCell(<<"$", "5", "0", "0">>)}

InvoiceRows ==
    {InvoiceRow(<<"I", "N", "V", "0", "0", "1">>, <<"C", "u", "s", "t", "o", "m", "e", "r", " ", "A">>, s, d, b, <<"2", "0", "2", "5", "-", "0", "1", "-", "0", "1">>) :
        s \in StatusCells, d \in DaysPastDueCells, b \in BalanceDueCells}

\* the fixture, or the fixture with the rows of one source document varied
IsStatsListing(docs) ==
    \/ \E keep \in SUBSET (1..Len(FixtureDocuments)) : docs = Restrict(FixtureDocuments, keep, {})
    \/ \E rows \in SeqsUpTo(BankRows, MaxRows) : docs = WithRows(FILE_BANK_SUMMARY, rows)
    \/ \E rows \in SeqsUpTo(CashFlowRows, MaxRows) :
          docs = WithRows(FILE_CASH_FLOW_ANALYSIS, rows)
    \/ \E rows \in SeqsUpTo(InvoiceRows, MaxRows) : docs = WithRows(FILE_AR_RECORDS, rows)

(***************************************************************************)
(* What a call leaves behind in the documents it was given.  Every entry   *)
(* point reads doc.full_data only through _data_to_df: pd.DataFrame(data)  *)
(* copies the values out of the row dicts and the cleanup assigns columns  *)
(* of that frame, so the rows of the document are the ones it had before.  *)
(***************************************************************************)
\* a faulty variant of full_data_after in which the cleanup of '$' and ','
\* is written back into the rows of the document
full_data_cleaned_in_place(data) ==
    [i \in 1..Len(data) |->
        [c \in DOMAIN data[i] |->
            IF IsObjectColumn(data, c) THEN data_to_df_cell(data[i][c], TRUE)
            ELSE data[i][c]]]

full_data_after(data) == data

documents_after(docs) ==
    [i \in 1..Len(docs) |-> Document(docs[i].filename, full_data_after(docs[i].full_data))]

(***************************************************************************)
(* Calls of the engine.                                                    *)
(***************************************************************************)
Call(op, input, value) == <<[op |-> op, input |-> input, value |-> value]>>

CalculateStats(input) ==
    /\ call' = Call("calculate_stats", input, calculate_stats(input))
    /\ documents' = documents_after(documents)
    /\ UNCHANGED <<filename_part, found, cell, coerced, uploads>>

GetCashForecastData ==
    /\ call' = Call("get_cash_forecast_data", documents, get_cash_forecast_data(documents))
    /\ documents' = documents_after(documents)
    /\ UNCHANGED <<filename_part, found, cell, coerced, uploads>>

Init ==
    /\ IsStatsListing(documents)
    /\ call = <<>>
    /\ filename_part = <<>>
    /\ found = <<>>
    /\ cell = NoneCell
    /\ coerced = <<>>
    /\ uploads = <<>>

Next ==
    \/ CalculateStats(documents)
    \/ GetCashForecastData

Spec == Init /\ [][Next]_vars

Called(op) == call # <<>> /\ call[1].op = op

(***************************************************************************)
(* The amounts, in tenths, that the cells of the explored documents stand  *)
(* for, written out independently of the coercion.                         *)
(***************************************************************************)
Tenths ==
    (StrCell(<<"1", "0", "0", "0", ".", "0", "0">>) :> 10000) @@ (StrCell(<<"5", "0", "0", ".", "0", "0">>) :> 5000)
    @@ (StrCell(<<"2", "1", "0", "0", ".", "0", "0">>) :> 21000) @@ (StrCell(<<"$", "1", ",", "2", "0", "0", ".", "5", "0">>) :> 12005)
    @@ (StrCell(<<"n", "/", "a">>) :> 0) @@ (StrCell(<<>>) :> 0) @@ (StrCell(<<"-", "2", "0", "0">>) :> -2000)
    @@ (IntCell(500) :> 5000) @@ (NoneCell :> 0)
    @@ (StrCell(<<"5", "3", "5", "0", ".", "5", "0">>) :> 53505) @@ (StrCell(<<"$", "6", ",", "0", "0", "0">>) :> 60000)
    @@ (StrCell(<<"5", "0", "0", "0">>) :> 50000) @@ (StrCell(<<"6", "0", "0", "0">>) :> 60000)
    @@ (StrCell(<<"0", ".", "0", "0">>) :> 0) @@ (StrCell(<<"2", "0", "0", "0", ".", "0", "0">>) :> 20000)
    @@ (StrCell(<<"$", "5", "0", "0">>) :> 5000)
    @@ (StrCell(<<"-", "$", "5", "0", "0">>) :> -5000)
    @@ (StrCell(<<"4", "5">>) :> 450) @@ (StrCell(<<"0">>) :> 0) @@ (StrCell(<<"-", "3">>) :> -30)
    @@ (StrCell(<<"3", "0">>) :> 300) @@ (StrCell(<<"1", "0">>) :> 100) @@ (StrCell(<<"5">>) :> 50)
    @@ (StrCell(<<"1", "0", "0", "0", "0">>) :> 100000) @@ (StrCell(<<"-", "5", "0", "0", "0">>) :> -50000)
    @@ (StrCell(<<"1", "2", "0", "0", "0">>) :> 120000) @@ (StrCell(<<"-", "2", "0", "0", "0">>) :> -20000)
    @@ (StrCell(<<"2", "0", "0", "0", "0">>) :> 200000) @@ (StrCell(<<"2", "5", "0", "0", "0">>) :> 250000)
    @@ (StrCell(<<"2", "2", "0", "0", "0">>) :> 220000) @@ (StrCell(<<"1", "8", "0", "0", "0">>) :> 180000)
    @@ (StrCell(<<"1", "9", "0", "0", "0">>) :> 190000)
    @@ (StrCell(<<"9", "1">>) :> 910) @@ (StrCell(<<"9", "0">>) :> 900) @@ (StrCell(<<"3", "1">>) :> 310)
    @@ (StrCell(<<"1">>) :> 10)
    @@ (StrCell(<<"-", "1", "0", "0", "0", "0", "0">>) :> -1000000) @@ (StrCell(<<"-", "1", "0", "0", "0", "0", "0", ".", "1">>) :> -1000001)
    @@ (StrCell(<<"-", "2", "0", "0", "0", "0", "0">>) :> -2000000) @@ (StrCell(<<"-", "2", "0", "0", "0", "0", "0", ".", "1">>) :> -2000001)
    @@ (StrCell(<<"-", "3", "0", "0", "0", "0", "0">>) :> -3000000)
    @@ (StrCell(<<"3", "6", "5">>) :> 3650) @@ (StrCell(<<"3", "6", "4">>) :> 3640) @@ (StrCell(<<"3">>) :> 30)

\* the rows of the document of the listing called filename, if it is there
RowsOf(docs, filename) ==
    IF \E i \in 1..Len(docs) : docs[i].filename = filename
    THEN docs[CHOOSE i \in 1..Len(docs) : docs[i].filename = filename].full_data
    ELSE <<>>

HasColumns(data, cols) == data # <<>> /\ \A i \in 1..Len(data) : cols \subseteq DOMAIN data[i]

\* C3: the forecast chart has 8 labels, both data arrays have length 8, and
\* the forecast array's value at index 3 is the actual array's value there.
C3_ForecastShape ==
    Called("get_cash_forecast_data") =>
        LET actual == call[1].value.datasets[1].data
            forecast == call[1].value.datasets[2].data
        IN  /\ Len(call[1].value.labels) = 8
            /\ Len(actual) = 8
            /\ Len(forecast) = 8
            /\ actual[4] # <<>>
            /\ forecast[4] = actual[4]

\* the chart was built for an empty listing
C3_Witness ==
    /\ Called("get_cash_forecast_data")
    /\ documents = <<>>
    /\ call[1].value.datasets[2].data[4] = <<3 * DEFAULT_WEEKLY_CHANGE * FixScale * WEEKS_PER_MONTH>>

\* C8: current is the sum over the rows of the bank summary of the amount
\* its 'Net Amount' cell stands for, an unparsable cell counting 0.
C8_CurrentIsSumOfNetAmounts ==
    ( /\ Called("calculate_stats")
      /\ HasColumns(RowsOf(documents, FILE_BANK_SUMMARY), {"Net Amount"}) )
    => LET rows == RowsOf(documents, FILE_BANK_SUMMARY)
       IN  call[1].value.current = SumSeq([i \in 1..Len(rows) |-> Tenths[rows[i]["Net Amount"]]])

\* an unparsable cell next to a parsable one
C8_Witness ==
    /\ Called("calculate_stats")
    /\ RowsOf(documents, FILE_BANK_SUMMARY)
         = <<("Net Amount" :> StrCell(<<"n", "/", "a">>)), ("Net Amount" :> StrCell(<<"$", "1", ",", "2", "0", "0", ".", "5", "0">>))>>
    /\ call[1].value.current = 12005

\* the fixture: 1000, 500 and 2100 give 3600.0
C8_FixtureWitness ==
    /\ Called("calculate_stats")
    /\ documents = FixtureDocuments
    /\ call[1].value.current = 36000

JanRows(rows, matches(_)) ==
    {i \in 1..Len(rows) : rows[i]["Month"].k = "str" /\ matches(rows[i]["Month"].s)}

Forecast30DayOf(rows, hits) ==
    IF hits = {} THEN 0 ELSE Tenths[rows[Min(hits)]["Net Cash Flow"]]

C10_AtRiskIsExactStatusAndPastDue ==
    ( /\ Called("calculate_stats")
      /\ HasColumns(RowsOf(documents, FILE_AR_RECORDS),
                    {"Status", "Days Past Due", "Balance Due"}) )
    => LET rows == RowsOf(documents, FILE_AR_RECORDS)
           risky(i) == /\ rows[i]["Status"] \in {StrCell(OUTSTANDING), StrCell(PARTIAL_PAYMENT)}
                       /\ Tenths[rows[i]["Days Past Due"]] > 0
       IN  /\ call[1].value.atRiskInvoices
                = SumSeq([i \in 1..Len(rows) |->
                             IF risky(i) THEN Tenths[rows[i]["Balance Due"]] ELSE 0])
           /\ call[1].value.overdueInvoicesCount
                = Cardinality({i \in 1..Len(rows) : risky(i)})

(***************************************************************************)
(* calculate_stats on a part of the stored documents: any subset of the    *)
(* documents, each without any subset of its required columns.             *)
(***************************************************************************)
RequiredColumns ==
    {<<FILE_BANK_SUMMARY, "Net Amount">>,
     <<FILE_CASH_FLOW_ANALYSIS, "Month">>, <<FILE_CASH_FLOW_ANALYSIS, "Net Cash Flow">>,
     <<FILE_AR_RECORDS, "Status">>, <<FILE_AR_RECORDS, "Days Past Due">>,
     <<FILE_AR_RECORDS, "Balance Due">>,
     <<FILE_EXPENSE_FORECAST, "Total Expenses">>,
     <<FILE_EXPENSE_FORECAST, "Estimated Revenue">>}

\* the fixture with expenses above revenue, so that the runway is computed
BurningDocuments ==
    WithRows(FILE_EXPENSE_FORECAST,
             <<ExpenseRow(<<"J", "a", "n", " ", "2", "0", "2", "5">>, <<"1", "8", "0", "0", "0">>, <<"2", "0", "0", "0">>),
               ExpenseRow(<<"F", "e", "b", " ", "2", "0", "2", "5">>, <<"2", "0", "0", "0", "0">>, <<"n", "/", "a">>)>>)

Reverse(s) == [i \in 1..Len(s) |-> s[Len(s) + 1 - i]]

InitDegrade ==
    /\ documents \in {FixtureDocuments, BurningDocuments, Reverse(BurningDocuments)}
    /\ call = <<>>
    /\ filename_part = <<>>
    /\ found = <<>>
    /\ cell = NoneCell
    /\ coerced = <<>>
    /\ uploads = <<>>

NextDegrade ==
    \E keep \in SUBSET (1..Len(documents)), dropped \in SUBSET RequiredColumns :
        /\ call = <<>>
        /\ CalculateStats(Restrict(documents, keep, dropped))

SpecDegrade == InitDegrade /\ [][NextDegrade]_vars

StatsKeys ==
    {"current", "forecast30Day", "atRiskInvoices", "cashRunway", "currentChangePercent",
     "forecastChangePercent", "overdueInvoicesCount"}

\* C7: for every subset of the source documents and of their required
\* columns calculate_stats returns a complete result, in which current,
\* forecast30Day and atRiskInvoices/overdueInvoicesCount have the value they
\* have with all documents present if their own source document and columns
\* are present, and are 0 otherwise.
C7_MetricsDegradeIndependently ==
    Called("calculate_stats") =>
        LET input == call[1].input
            value == call[1].value
            all == calculate_stats(documents)
            has(file, cols) == HasColumns(RowsOf(input, file), cols)
        IN  /\ DOMAIN value = StatsKeys
            /\ value.current
                 = IF has(FILE_BANK_SUMMARY, {"Net Amount"}) THEN all.current ELSE 0
            /\ value.forecast30Day
                 = IF has(FILE_CASH_FLOW_ANALYSIS, {"Month", "Net Cash Flow"})
                   THEN all.forecast30Day ELSE 0
            /\ value.atRiskInvoices
                 = IF has(FILE_AR_RECORDS, {"Status", "Days Past Due", "Balance Due"})
                   THEN all.atRiskInvoices ELSE 0
            /\ value.overdueInvoicesCount
                 = IF has(FILE_AR_RECORDS, {"Status", "Days Past Due", "Balance Due"})
                   THEN all.overdueInvoicesCount ELSE 0

\* the bank summary is absent, the AR records lack a column, and the
\* forecast is the one of the full listing
C7_Witness ==
    /\ Called("calculate_stats")
    /\ RowsOf(call[1].input, FILE_BANK_SUMMARY) = <<>>
    /\ ~HasColumns(RowsOf(call[1].input, FILE_AR_RECORDS), {"Days Past Due"})
    /\ RowsOf(call[1].input, FILE_AR_RECORDS) # <<>>
    /\ call[1].value.current = 0
    /\ call[1].value.atRiskInvoices = 0
    /\ call[1].value.forecast30Day = 53505

(***************************************************************************)
(* Month labels, the merge of the monthly collections with the monthly     *)
(* expenses, and its chronological sort.                                   *)
(***************************************************************************)
\* the printable ASCII characters in code order, after tab and newline
CodeOrder ==
    <<"\t", "\n">> \o
    <<" ", "!", "\"", "#", "$", "%", "&", "'", "(", ")", "*", "+", ",", "-",
        ".", "/", "0", "1", "2", "3", "4", "5", "6", "7", "8", "9", ":", ";",
        "<", "=", ">", "?", "@", "A", "B", "C", "D", "E", "F", "G", "H", "I",
        "J", "K", "L", "M", "N", "O", "P", "Q", "R", "S", "T", "U", "V", "W",
        "X", "Y", "Z", "[", "\\", "]", "^", "_", "a", "b", "c", "d", "e", "f",
        "g", "h", "i", "j", "k", "l", "m", "n", "o", "p", "q", "r", "s", "t",
        "u", "v", "w", "x", "y", "z", "{", "|", "}", "~">>

CharCode == [c \in {CodeOrder[i] : i \in 1..Len(CodeOrder)} |->
                CHOOSE i \in 1..Len(CodeOrder) : CodeOrder[i] = c]

\* a < b for Python strings
TextLess(a, b) ==
    \E k \in 1..(Len(b)) :
        /\ \A j \in 1..(k - 1) : j <= Len(a) /\ a[j] = b[j]
        /\ \/ k = Len(a) + 1
           \/ k <= Len(a) /\ CharCode[a[k]] < CharCode[b[k]]

MonthAbbreviations ==
    <<<<"j", "a", "n">>, <<"f", "e", "b">>, <<"m", "a", "r">>, <<"a", "p", "r">>, <<"m", "a", "y">>, <<"j", "u", "n">>, <<"j", "u", "l">>, <<"a", "u", "g">>, <<"s", "e", "p">>, <<"o", "c", "t">>,
      <<"n", "o", "v">>, <<"d", "e", "c">>>>

\* the texts pandas reads as a missing date
NaTTexts == {<<>>, <<"n", "a", "n">>, <<"N", "a", "N">>, <<"N", "a", "T">>, <<"n", "a", "t">>}

\* PandasAnalyticsService._parse_month_year as a sort key [rank, ord]:
\* rank 0 is pd.Timestamp.min, rank 1 a date (ord counts its months), rank 2
\* is NaT, which sort_values puts last.  Of the formats of the general
\* parser only '%b %Y' is modelled; every other label of the model is one
\* that no parser accepts.
parse_month_year(date_str) ==
    LET n == Len(date_str)
        year == SubSeq(date_str, n - 3, n)
        gap == SubSeq(date_str, 4, n - 4)
        abbr == Lower(SubSeq(date_str, 1, 3))
        isMonthYear ==
            /\ n >= 8
            /\ \E m \in 1..12 : MonthAbbreviations[m] = abbr
            /\ gap # <<>> /\ \A i \in 1..Len(gap) : gap[i] \in WhiteSpace
            /\ \A i \in 1..4 : IsDigit(year[i])
            /\ DigitsValue(year) > 1677 /\ DigitsValue(year) < 2262
    IN  IF date_str \in NaTTexts THEN [rank |-> 2, ord |-> 0]
        ELSE IF isMonthYear
        THEN [rank |-> 1,
              ord |-> 12 * DigitsValue(year)
                      + (CHOOSE m \in 1..12 : MonthAbbreviations[m] = abbr)]
        ELSE [rank |-> 0, ord |-> 0]

KeyLess(a, b) == a.rank < b.rank \/ (a.rank = b.rank /\ a.ord < b.ord)

\* the elements of s in the order lt, where lt[i][j] says that s[i] comes
\* before s[j]; elements that lt does not order keep their order in s
StableSort(s, lt) ==
    LET before(i) == {j \in 1..Len(s) : lt[j][i] \/ (~lt[i][j] /\ j < i)}
    IN  [k \in 1..Len(s) |->
            s[CHOOSE i \in 1..Len(s) : Cardinality(before(i)) = k - 1]]

RECURSIVE Flatten(_)
Flatten(ss) == IF ss = <<>> THEN <<>> ELSE ss[1] \o Flatten(Tail(ss))

\* The rows of an outer merge on the keys lkeys and rkeys, the amounts left
\* and right beside them: the keys come in lexicographic order, the rows of
\* one key are paired left-major, and the amount of an absent side is 0
\* (fillna).  A row is [Month, collections, expenses].
outer_merge(lkeys, left, rkeys, right) ==
    LET all == lkeys \o rkeys
        keys == StableSort(all, [i \in DOMAIN all |-> [j \in DOMAIN all |->
                                    TextLess(all[i], all[j])]])
        distinct == SelectSeq([i \in DOMAIN keys |->
                                  IF i > 1 /\ keys[i - 1] = keys[i] THEN <<>> ELSE <<keys[i]>>],
                              LAMBDA k : k # <<>>)
        rowsOf(k) ==
            LET ls == SelectSeq([i \in DOMAIN lkeys |-> i], LAMBDA i : lkeys[i] = k)
                rs == SelectSeq([j \in DOMAIN rkeys |-> j], LAMBDA j : rkeys[j] = k)
            IN  IF rs = <<>>
                THEN [x \in DOMAIN ls |->
                         [Month |-> k, collections |-> left[ls[x]], expenses |-> 0]]
                ELSE IF ls = <<>>
                THEN [y \in DOMAIN rs |->
                         [Month |-> k, collections |-> 0, expenses |-> right[rs[y]]]]
                ELSE Flatten([x \in DOMAIN ls |->
                                 [y \in DOMAIN rs |->
                                     [Month |-> k, collections |-> left[ls[x]],
                                      expenses |-> right[rs[y]]]]])
    IN  Flatten([i \in DOMAIN distinct |-> rowsOf(distinct[i][1])])

\* merged.sort_values('DateObj'), DateObj being the parsed 'Month'
sort_by_date(merged) ==
    StableSort(merged, [i \in DOMAIN merged |-> [j \in DOMAIN merged |->
                           KeyLess(parse_month_year(merged[i].Month),
                                   parse_month_year(merged[j].Month))]])

month_keys(df) == [i \in DOMAIN df.rows |-> astype_str(df.rows[i]["Month"])]

\* a faulty variant of the merge that charts one side alone when the other
\* is absent, empty or lacks a column
merge_on_month_one_sided(df_in, df_out) ==
    LET in_ok == ~IsEmpty(df_in) /\ {"Month", "Total Collections"} \subseteq df_in.columns
        out_ok == ~IsEmpty(df_out) /\ {"Month", "Total Expenses"} \subseteq df_out.columns
    IN  IF ~in_ok /\ ~out_ok
        THEN [ok |-> FALSE, rows |-> <<>>]
        ELSE [ok |-> TRUE,
              rows |-> sort_by_date(outer_merge(
                           IF in_ok THEN month_keys(df_in) ELSE <<>>,
                           IF in_ok THEN numeric_column(df_in, "Total Collections") ELSE <<>>,
                           IF out_ok THEN month_keys(df_out) ELSE <<>>,
                           IF out_ok THEN numeric_column(df_out, "Total Expenses") ELSE <<>>))]

\* pd.merge(df_in[['Month', 'Total Collections']], df_out[['Month', 'Total Expenses']],
\*          on='Month', how='outer').fillna(0)
\* of the frames of the monthly collections and of the monthly expenses,
\* followed by the sort on the parsed month.  The result is [ok, rows]: ok is
\* FALSE when the frames are not merged (one is empty) or the merge raises
\* (a column is missing, or 'Month' is text on one side and numeric on the
\* other); the amounts of a row are in tenths.
merge_on_month(df_in, df_out) ==
    IF \/ IsEmpty(df_in) \/ IsEmpty(df_out)
       \/ ~({"Month", "Total Collections"} \subseteq df_in.columns)
       \/ ~({"Month", "Total Expenses"} \subseteq df_out.columns)
       \/ ("Month" \in df_in.object) # ("Month" \in df_out.object)
    THEN [ok |-> FALSE, rows |-> <<>>]
    ELSE [ok |-> TRUE,
          rows |-> sort_by_date(outer_merge(month_keys(df_in),
                                            numeric_column(df_in, "Total Collections"),
                                            month_keys(df_out),
                                            numeric_column(df_out, "Total Expenses")))]

merged_months(docs) ==
    merge_on_month(data_to_df(Located(docs, PART_MONTHLY_FORECAST).full_data),
                   data_to_df(Located(docs, PART_EXPENSE_FORECAST).full_data))

(***************************************************************************)
(* get_cash_flow_data, get_scenario_analysis and get_cash_shortfalls.      *)
(* Scenario balances are in thousandths: tenths times PctScale.            *)
(***************************************************************************)
PctScale == Pow10(2)

\* the multipliers 1.15, 0.95, 0.85 and 1.10, in hundredths
OPTIMISTIC_COLLECTIONS == 115
OPTIMISTIC_EXPENSES == 95
PESSIMISTIC_COLLECTIONS == 85
PESSIMISTIC_EXPENSES == 110

PRIORITY_HIGH_ABOVE == 200000
PRIORITY_MEDIUM_ABOVE == 100000

cash_flow_chart(merged) ==
    IF merged.ok
    THEN [labels |-> [i \in DOMAIN merged.rows |-> merged.rows[i].Month],
          datasets |-> <<[label |-> "Inflows",
                          data |-> [i \in DOMAIN merged.rows |-> merged.rows[i].collections]],
                         [label |-> "Outflows",
                          data |-> [i \in DOMAIN merged.rows |-> merged.rows[i].expenses]]>>]
    ELSE [labels |-> <<>>, datasets |-> <<>>]

get_cash_flow_data(docs) == cash_flow_chart(merged_months(docs))

\* the balances after each month, from balance start, adding the net flows
Running(nets, start) ==
    [i \in 1..Len(nets) |-> start + SumSeq(SubSeq(nets, 1, i))]

net_expected(row) == (row.collections - row.expenses) * PctScale

\* a faulty variant of the optimistic net flow that raises the expenses by
\* 5% where the code lowers them
net_optimistic_expenses_up(row) ==
    row.collections * OPTIMISTIC_COLLECTIONS - row.expenses * (2 * 100 - OPTIMISTIC_EXPENSES)

net_optimistic(row) ==
    row.collections * OPTIMISTIC_COLLECTIONS - row.expenses * OPTIMISTIC_EXPENSES

\* a faulty variant of the pessimistic net flow that applies the optimistic
\* multiplier to the collections
net_pessimistic_swapped(row) ==
    row.collections * OPTIMISTIC_COLLECTIONS - row.expenses * PESSIMISTIC_EXPENSES

net_pessimistic(row) ==
    row.collections * PESSIMISTIC_COLLECTIONS - row.expenses * PESSIMISTIC_EXPENSES

scenario_series(merged, current_balance) ==
    IF merged.ok
    THEN [labels |-> [i \in DOMAIN merged.rows |-> merged.rows[i].Month],
          datasets |->
              <<[label |-> "Optimistic",
                 data |-> Running([i \in DOMAIN merged.rows |-> net_optimistic(merged.rows[i])],
                                  current_balance)],
                [label |-> "Expected",
                 data |-> Running([i \in DOMAIN merged.rows |-> net_expected(merged.rows[i])],
                                  current_balance)],
                [label |-> "Pessimistic",
                 data |-> Running([i \in DOMAIN merged.rows |-> net_pessimistic(merged.rows[i])],
                                  current_balance)]>>]
    ELSE [labels |-> <<>>, datasets |-> <<>>]

get_scenario_analysis(docs) ==
    scenario_series(merged_months(docs), stats_current(docs) * PctScale)

\* a faulty variant of the net flow of the shortfall walk that leaves out
\* the pessimistic percentages
shortfall_net_expected(row) == (row.collections - row.expenses) * PctScale

\* the walk's own net flow: col = collections * 0.85, exp = expenses * 1.10,
\* net = col - exp
shortfall_net(row) ==
    row.collections * PESSIMISTIC_COLLECTIONS - row.expenses * PESSIMISTIC_EXPENSES

\* a faulty variant of the shortfall record whose priority thresholds are
\* inclusive
shortfall_period_inclusive(row, running_balance, amount) ==
    [week |-> row.Month,
     shortfall |-> amount,
     priority |-> IF amount >= PRIORITY_HIGH_ABOVE * FixScale * PctScale THEN "High"
                  ELSE IF amount >= PRIORITY_MEDIUM_ABOVE * FixScale * PctScale THEN "Medium"
                  ELSE "Low",
     closingBalance |-> running_balance,
     projectedInflows |-> row.collections * PESSIMISTIC_COLLECTIONS,
     projectedOutflows |-> row.expenses * PESSIMISTIC_EXPENSES,
     netCashFlow |-> shortfall_net(row),
     gap |-> amount]

\* the shortfall record of one period (keyDrivers, three lines of text that
\* restate the amount, is left out)
shortfall_period(row, running_balance, amount) ==
    [week |-> row.Month,
     shortfall |-> amount,
     priority |-> IF amount > PRIORITY_HIGH_ABOVE * FixScale * PctScale THEN "High"
                  ELSE IF amount > PRIORITY_MEDIUM_ABOVE * FixScale * PctScale THEN "Medium"
                  ELSE "Low",
     closingBalance |-> running_balance,
     projectedInflows |-> row.collections * PESSIMISTIC_COLLECTIONS,
     projectedOutflows |-> row.expenses * PESSIMISTIC_EXPENSES,
     netCashFlow |-> shortfall_net(row),
     gap |-> amount]

\* a faulty variant of the walk that stops at the first shortfall
shortfall_periods_first(rows, balances) ==
    LET negative == {i \in DOMAIN rows : balances[i] < 0}
    IN  IF negative = {} THEN <<>>
        ELSE <<shortfall_period(rows[Min(negative)], balances[Min(negative)],
                                Abs(balances[Min(negative)]))>>

\* the periods whose pessimistic running balance is negative
shortfall_periods(rows, balances) ==
    Flatten([i \in DOMAIN rows |->
                IF balances[i] < 0
                THEN <<shortfall_period(rows[i], balances[i], Abs(balances[i]))>>
                ELSE <<>>])

\* a faulty variant of the total that keeps the last shortfall instead of the sum
total_shortfall_last(shortfalls) ==
    IF shortfalls = <<>> THEN 0 ELSE shortfalls[Len(shortfalls)].shortfall

\* sum(s['shortfall'] for s in shortfalls)
total_shortfall(shortfalls) ==
    SumSeq([i \in DOMAIN shortfalls |-> shortfalls[i].shortfall])

shortfall_result(shortfalls) ==
    [periods |-> shortfalls,
     totalShortfall |-> total_shortfall(shortfalls),
     hasShortfalls |-> Len(shortfalls) > 0]

pessimistic_shortfalls(rows, current_balance) ==
    shortfall_result(
        shortfall_periods(rows, Running([i \in DOMAIN rows |-> shortfall_net(rows[i])],
                                        current_balance)))

get_cash_shortfalls(docs) ==
    pessimistic_shortfalls(merged_months(docs).rows, stats_current(docs) * PctScale)

(***************************************************************************)
(* The monthly engine: scenario analysis, shortfall detection and the      *)
(* cash-flow chart over listings whose monthly documents vary.             *)
(***************************************************************************)
ScenarioMonthCells == {StrCell(<<"J", "a", "n", " ", "2", "0", "2", "5">>), StrCell(<<"F", "e", "b", " ", "2", "0", "2", "5">>), StrCell(<<"D", "e", "c", " ", "2", "0", "2", "4">>)}

CollectionsCells == {StrCell(<<"1", "0", "0", "0", "0">>), StrCell(<<"-", "5", "0", "0", "0">>)}

ExpensesCells == {StrCell(<<"1", "2", "0", "0", "0">>), StrCell(<<"-", "2", "0", "0", "0">>)}

\* rows of the monthly collections, one of them without an amount
CollectionsRows ==
    {("Month" :> m) @@ ("Total Collections" :> c) :
        m \in ScenarioMonthCells, c \in CollectionsCells}
    \cup {("Month" :> StrCell(<<"J", "a", "n", " ", "2", "0", "2", "5">>))}

\* rows of the monthly expenses, one of them without an amount
ExpensesRows ==
    {("Month" :> m) @@ ("Total Expenses" :> c) :
        m \in ScenarioMonthCells, c \in ExpensesCells}
    \cup {("Month" :> StrCell(<<"J", "a", "n", " ", "2", "0", "2", "5">>))}

\* mock_collections and mock_expenses of the shortfall test
mock_collections ==
    <<("Month" :> StrCell(<<"J", "a", "n", " ", "2", "0", "2", "5">>)) @@ ("Total Collections" :> StrCell(<<"1", "0", "0", "0", "0">>))>>

mock_expenses ==
    <<("Month" :> StrCell(<<"J", "a", "n", " ", "2", "0", "2", "5">>)) @@ ("Total Expenses" :> StrCell(<<"1", "2", "0", "0", "0">>))>>

\* the starting balances: the fixture's 3600.0, none, and a deficit of 200
ScenarioBankData ==
    {mock_bank_data, <<>>, <<("Net Amount" :> StrCell(<<"-", "2", "0", "0">>))>>}

ScenarioListing(bank, collections, expenses) ==
    [i \in 1..Len(FixtureDocuments) |->
        LET name == FixtureDocuments[i].filename
        IN  IF name = FILE_BANK_SUMMARY THEN Document(name, bank)
            ELSE IF name = FILE_MONTHLY_FORECAST THEN Document(name, collections)
            ELSE IF name = FILE_EXPENSE_FORECAST THEN Document(name, expenses)
            ELSE FixtureDocuments[i]]

IsScenarioListing(docs) ==
    \E bank \in ScenarioBankData :
        \/ \E rows \in SeqsUpTo(CollectionsRows, MaxRows), expenses \in {mock_expense_data, mock_expenses} :
              docs = ScenarioListing(bank, rows, expenses)
        \/ \E rows \in SeqsUpTo(ExpensesRows, MaxRows),
              collections \in {mock_monthly_collections, mock_collections} :
              docs = ScenarioListing(bank, collections, rows)

GetScenarioAnalysis ==
    /\ call' = Call("get_scenario_analysis", documents, get_scenario_analysis(documents))
    /\ documents' = documents_after(documents)
    /\ UNCHANGED <<filename_part, found, cell, coerced, uploads>>

GetCashShortfalls ==
    /\ call' = Call("get_cash_shortfalls", documents, get_cash_shortfalls(documents))
    /\ documents' = documents_after(documents)
    /\ UNCHANGED <<filename_part, found, cell, coerced, uploads>>

GetCashFlowData ==
    /\ call' = Call("get_cash_flow_data", documents, get_cash_flow_data(documents))
    /\ documents' = documents_after(documents)
    /\ UNCHANGED <<filename_part, found, cell, coerced, uploads>>

InitScenario ==
    /\ IsScenarioListing(documents)
    /\ call = <<>>
    /\ filename_part = <<>>
    /\ found = <<>>
    /\ cell = NoneCell
    /\ coerced = <<>>
    /\ uploads = <<>>

NextScenario ==
    \/ GetScenarioAnalysis
    \/ GetCashShortfalls
    \/ GetCashFlowData

SpecScenario == InitScenario /\ [][NextScenario]_vars

\* the amounts of the rows of a monthly document, by the table of cells
AmountsOf(docs, filename, column) ==
    LET data == RowsOf(docs, filename)
    IN  [i \in 1..Len(data) |->
            IF column \in DOMAIN data[i] THEN Tenths[data[i][column]] ELSE 0]

NonNegativeMonths(docs) ==
    /\ \A i \in 1..Len(RowsOf(docs, FILE_MONTHLY_FORECAST)) :
          AmountsOf(docs, FILE_MONTHLY_FORECAST, "Total Collections")[i] >= 0
    /\ \A i \in 1..Len(RowsOf(docs, FILE_EXPENSE_FORECAST)) :
          AmountsOf(docs, FILE_EXPENSE_FORECAST, "Total Expenses")[i] >= 0

C2_TotalIsSumOfPeriods ==
    Called("get_cash_shortfalls") =>
        LET v == call[1].value
        IN  /\ v.totalShortfall = SumSeq([i \in 1..Len(v.periods) |-> v.periods[i].shortfall])
            /\ v.hasShortfalls <=> (v.periods # <<>>)

\* two shortfall periods of different amounts
C2_Witness ==
    /\ Called("get_cash_shortfalls")
    /\ Len(call[1].value.periods) >= 2
    /\ call[1].value.periods[1].shortfall # call[1].value.periods[2].shortfall
    /\ call[1].value.hasShortfalls

\* the shortfall test of the repository: 3600 + 8500 - 13200 = -1100
C2_FixtureShortfall ==
    (Called("get_cash_shortfalls")
     /\ call[1].input = ScenarioListing(mock_bank_data, mock_collections, mock_expenses)) =>
        /\ Len(call[1].value.periods) = 1
        /\ call[1].value.periods[1].closingBalance = -1100 * FixScale * PctScale
        /\ call[1].value.totalShortfall = 1100 * FixScale * PctScale

(***************************************************************************)
(* get_invoices_data and get_invoices_stats.                               *)
(***************************************************************************)
\* float(s) of Python on the texts of the model: a decimal literal, or the
\* "nan" that str() gives for a missing number
py_float_text(s) ==
    IF Lower(RStrip(LStrip(s))) = <<"n", "a", "n">> THEN [ok |-> TRUE, value |-> NaN]
    ELSE float_text(s)

\* d > n for a float d, false for NaN
DecGreater(d, n) == ~d.nan /\ d.m > n * Pow10(d.e)

INVOICE_KEY_COLUMNS ==
    {"Invoice Number", "Customer Name", "Balance Due", "Due Date", "Status"}

MIN_KEY_COLUMNS == 3

\* a faulty variant of the risk whose thresholds include their bounds
risk_of_inclusive(status, days_past_due) ==
    IF Contains(status, OUTSTANDING) \/ Contains(status, <<"P", "a", "r", "t", "i", "a", "l">>)
    THEN IF DecGreater(days_past_due, 89)
         THEN [riskScore |-> 90, aiPrediction |-> "Critical Risk"]
         ELSE IF DecGreater(days_past_due, 29)
         THEN [riskScore |-> 60, aiPrediction |-> "High Risk"]
         ELSE IF DecGreater(days_past_due, 0)
         THEN [riskScore |-> 30, aiPrediction |-> "Medium Risk"]
         ELSE [riskScore |-> 0, aiPrediction |-> "Low Risk"]
    ELSE [riskScore |-> 0, aiPrediction |-> "Low Risk"]

\* the rule-based risk of a status text and a number of days past due
risk_of(status, days_past_due) ==
    IF Contains(status, OUTSTANDING) \/ Contains(status, <<"P", "a", "r", "t", "i", "a", "l">>)
    THEN IF DecGreater(days_past_due, 90)
         THEN [riskScore |-> 90, aiPrediction |-> "Critical Risk"]
         ELSE IF DecGreater(days_past_due, 30)
         THEN [riskScore |-> 60, aiPrediction |-> "High Risk"]
         ELSE IF DecGreater(days_past_due, 0)
         THEN [riskScore |-> 30, aiPrediction |-> "Medium Risk"]
         ELSE [riskScore |-> 0, aiPrediction |-> "Low Risk"]
    ELSE [riskScore |-> 0, aiPrediction |-> "Low Risk"]

\* float(text) with the fallback of the except clause
float_or(text, fallback) ==
    IF py_float_text(text).ok THEN py_float_text(text).value ELSE fallback

\* the record built from the cells of one row; a cell is the one of the
\* frame, or the default of row.get when the frame lacks the column
invoice_of(number, customer, balance, due, status, days) ==
    [id |-> py_str(number),
     customer |-> py_str(customer),
     amount |-> float_or(RemoveChars(py_str(balance), {"$", ","}), Zero),
     dueDate |-> py_str(due),
     status |-> status.s]
    @@ risk_of(status.s, float_or(py_str(days), Zero))

invoice_record(row) ==
    LET get(c, default) == IF c \in DOMAIN row THEN row[c] ELSE StrCell(default)
    IN  invoice_of(get("Invoice Number", <<"U", "N", "K", "N", "O", "W", "N">>), get("Customer Name", <<"U", "n", "k", "n", "o", "w", "n">>),
                   get("Balance Due", <<"0">>), get("Due Date", <<>>),
                   get("Status", <<"U", "n", "k", "n", "o", "w", "n">>), get("Days Past Due", <<"0">>))

\* The loop over the rows.  'Outstanding' in status raises for a status that
\* is a number (a Status column of numeric dtype); the except clause around
\* the loop then ends it, and the records appended so far are returned.
invoices_of(df) ==
    LET raising == {i \in DOMAIN df.rows :
                       "Status" \in df.columns /\ df.rows[i]["Status"].k # "str"}
        done == IF raising = {} THEN Len(df.rows) ELSE Min(raising) - 1
    IN  IF Cardinality(INVOICE_KEY_COLUMNS \cap df.columns) >= MIN_KEY_COLUMNS
        THEN [i \in 1..done |-> invoice_record(df.rows[i])]
        ELSE <<>>

get_invoices_data(docs) ==
    invoices_of(data_to_df(Located(docs, PART_AR_RECORDS).full_data))

\* the rows with the given status texts
status_isin(df, values) ==
    {i \in DOMAIN df.rows : df.rows[i]["Status"].k = "str" /\ df.rows[i]["Status"].s \in values}

\* 1. receivables and at-risk amounts of the AR frame, in tenths
receivables(df) ==
    LET days == to_numeric_column(df, "Days Past Due")
        balance == numeric_column(df, "Balance Due")
        active == status_isin(df, {OUTSTANDING, PARTIAL_PAYMENT})
    IN  [totalReceivables |-> SumSeq([i \in DOMAIN balance |-> IF i \in active THEN balance[i] ELSE 0]),
         activeInvoiceCount |-> Cardinality(active),
         totalAtRiskAmount |-> SumSeq([i \in DOMAIN balance |->
                                          IF i \in active /\ days[i] > 0 THEN balance[i] ELSE 0]),
         atRiskInvoiceCount |-> Cardinality({i \in active : days[i] > 0})]

no_receivables ==
    [totalReceivables |-> 0, activeInvoiceCount |-> 0, totalAtRiskAmount |-> 0,
     atRiskInvoiceCount |-> 0]

\* 2. the collection rate of the first row of the monthly forecast, a float
collection_rate(df_forecast) ==
    IF "Collection Rate %" \in df_forecast.columns
    THEN float_or(RemoveChars(py_str(df_forecast.rows[1]["Collection Rate %"]), {"%"}), Zero)
    ELSE Zero

invoices_stats(df, df_forecast) ==
    (IF {"Status", "Days Past Due", "Balance Due"} \subseteq df.columns
     THEN receivables(df) ELSE no_receivables)
    @@ [collectionRate |-> collection_rate(df_forecast)]

get_invoices_stats(docs) ==
    invoices_stats(data_to_df(Located(docs, PART_AR_RECORDS).full_data),
                   data_to_df(Located(docs, PART_MONTHLY_FORECAST).full_data))

(***************************************************************************)
(* The invoice engine over listings whose AR records vary: one row of any  *)
(* status, days past due and balance; several rows of a few kinds; and the *)
(* fixture without some of its columns.                                    *)
(***************************************************************************)
RiskStatusCells ==
    StatusCells
    \cup {StrCell(<<"P", "a", "r", "t", "i", "a", "l">>), StrCell(<<"o", "u", "t", "s", "t", "a", "n", "d", "i", "n", "g">>), StrCell(<<"N", "o", "t", " ", "O", "u", "t", "s", "t", "a", "n", "d", "i", "n", "g">>),
          StrCell(<<"O", "u", "t", ",", "s", "t", "a", "n", "d", "i", "n", "g">>)}

RiskDaysCells ==
    DaysPastDueCells
    \cup {StrCell(<<"9", "1">>), StrCell(<<"9", "0">>), StrCell(<<"3", "1">>), StrCell(<<"3", "0">>), StrCell(<<"1">>),
          StrCell(<<"n", "/", "a">>)}

\* balances due of an invoice: the amounts owed, and credit balances written
\* as a negative number and as a negative currency text
InvoiceBalanceCells ==
    BalanceDueCells \cup {StrCell(<<"-", "2", "0", "0">>), StrCell(<<"-", "$", "5", "0", "0">>)}

SingleInvoiceRows ==
    {InvoiceRow(<<"I", "N", "V", "0", "0", "1">>, <<"C", "u", "s", "t", "o", "m", "e", "r", " ", "A">>, s, d, b, <<"2", "0", "2", "5", "-", "0", "1", "-", "0", "1">>) :
        s \in RiskStatusCells, d \in RiskDaysCells, b \in InvoiceBalanceCells}

\* a few kinds of row, the last with a status code instead of a status text
SomeInvoiceRows ==
    {InvoiceRow(<<"I", "N", "V", "0", "0", "1">>, <<"C", "u", "s", "t", "o", "m", "e", "r", " ", "A">>, StrCell(OUTSTANDING), StrCell(<<"4", "5">>),
                StrCell(<<"1", "0", "0", "0", ".", "0", "0">>), <<"2", "0", "2", "5", "-", "0", "1", "-", "0", "1">>),
     InvoiceRow(<<"I", "N", "V", "0", "0", "2">>, <<"C", "u", "s", "t", "o", "m", "e", "r", " ", "B">>, StrCell(<<"P", "a", "i", "d">>), StrCell(<<"4", "5">>),
                StrCell(<<"$", "5", "0", "0">>), <<"2", "0", "2", "5", "-", "0", "1", "-", "1", "5">>),
     InvoiceRow(<<"I", "N", "V", "0", "0", "3">>, <<"C", "u", "s", "t", "o", "m", "e", "r", " ", "C">>, StrCell(<<"O", "v", "e", "r", "d", "u", "e">>), StrCell(<<"4", "5">>),
                StrCell(<<"1", "0", "0", "0", ".", "0", "0">>), <<"2", "0", "2", "5", "-", "0", "1", "-", "2", "0">>),
     InvoiceRow(<<"I", "N", "V", "0", "0", "4">>, <<"C", "u", "s", "t", "o", "m", "e", "r", " ", "D">>, StrCell(PARTIAL_PAYMENT), StrCell(<<"0">>),
                StrCell(<<"$", "5", "0", "0">>), <<"2", "0", "2", "5", "-", "0", "2", "-", "0", "1">>),
     InvoiceRow(<<"I", "N", "V", "0", "0", "5">>, <<"C", "u", "s", "t", "o", "m", "e", "r", " ", "E">>, StrCell(<<"O", "u", "t", "s", "t", "a", "n", "d", "i", "n", "g", ",">>), StrCell(<<"4", "5">>),
                StrCell(<<"$", "5", "0", "0">>), <<"2", "0", "2", "5", "-", "0", "2", "-", "0", "1">>),
     InvoiceRow(<<"I", "N", "V", "0", "0", "6">>, <<"C", "u", "s", "t", "o", "m", "e", "r", " ", "F">>, IntCell(1), StrCell(<<"4", "5">>),
                StrCell(<<"$", "5", "0", "0">>), <<"2", "0", "2", "5", "-", "0", "2", "-", "0", "1">>)}

InvoiceColumns == INVOICE_KEY_COLUMNS \cup {"Days Past Due"}

\* 'Collection Rate %' cells of the monthly forecast: texts with and without
\* the percent sign, a text that is no number, a null, a number and the
\* float NaN of a missing value
RateCells ==
    {StrCell(<<"7", "5", ".", "5", "%">>), StrCell(<<"7", "1", ".", "1">>), StrCell(<<"n", "/", "a">>), NoneCell, FloatCell(755, 1), Missing}

RateRows ==
    {("Month" :> StrCell(<<"J", "a", "n", " ", "2", "0", "2", "5">>)) @@ ("Total Collections" :> StrCell(<<"2", "0", "0", "0", "0">>))
     @@ ("Collection Rate %" :> c) : c \in RateCells}

IsInvoiceListing(docs) ==
    \/ \E row \in SingleInvoiceRows : docs = WithRows(FILE_AR_RECORDS, <<row>>)
    \/ \E rows \in SeqsUpTo(SomeInvoiceRows, MaxRows) : docs = WithRows(FILE_AR_RECORDS, rows)
    \/ \E cols \in SUBSET InvoiceColumns :
          docs = Restrict(FixtureDocuments, 1..Len(FixtureDocuments),
                          {<<FILE_AR_RECORDS, c>> : c \in cols})
    \/ \E rates \in SeqsUpTo(RateRows, MaxRows), ar \in {mock_ar_data, <<>>} :
          \E dropped \in SUBSET {<<FILE_MONTHLY_FORECAST, "Collection Rate %">>} :
              docs = Restrict([i \in 1..Len(FixtureDocuments) |->
                                  LET name == FixtureDocuments[i].filename
                                  IN  IF name = FILE_MONTHLY_FORECAST THEN Document(name, rates)
                                      ELSE IF name = FILE_AR_RECORDS THEN Document(name, ar)
                                      ELSE FixtureDocuments[i]],
                              1..Len(FixtureDocuments), dropped)
    \/ docs = Restrict(FixtureDocuments,
                       {i \in 1..Len(FixtureDocuments) :
                           FixtureDocuments[i].filename # FILE_MONTHLY_FORECAST}, {})

GetInvoicesData ==
    /\ call' = Call("get_invoices_data", documents, get_invoices_data(documents))
    /\ documents' = documents_after(documents)
    /\ UNCHANGED <<filename_part, found, cell, coerced, uploads>>

GetInvoicesStats ==
    /\ call' = Call("get_invoices_stats", documents, get_invoices_stats(documents))
    /\ documents' = documents_after(documents)
    /\ UNCHANGED <<filename_part, found, cell, coerced, uploads>>

InitInvoices ==
    /\ IsInvoiceListing(documents)
    /\ call = <<>>
    /\ filename_part = <<>>
    /\ found = <<>>
    /\ cell = NoneCell
    /\ coerced = <<>>
    /\ uploads = <<>>

NextInvoices ==
    \/ GetInvoicesData
    \/ GetInvoicesStats

SpecInvoices == InitInvoices /\ [][NextInvoices]_vars

\* the receivables that the AR rows of a listing should give, by the table
\* of cells, counting the rows whose status cell is one of active
ExpectedReceivables(rows, active) ==
    LET isActive(i) == rows[i]["Status"] \in active
        atRisk(i) == isActive(i) /\ Tenths[rows[i]["Days Past Due"]] > 0
    IN  [totalReceivables |-> SumSeq([i \in DOMAIN rows |->
                                         IF isActive(i) THEN Tenths[rows[i]["Balance Due"]] ELSE 0]),
         activeInvoiceCount |-> Cardinality({i \in DOMAIN rows : isActive(i)}),
         totalAtRiskAmount |-> SumSeq([i \in DOMAIN rows |->
                                          IF atRisk(i) THEN Tenths[rows[i]["Balance Due"]] ELSE 0]),
         atRiskInvoiceCount |-> Cardinality({i \in DOMAIN rows : atRisk(i)})]

\* C11: activeInvoiceCount counts the AR rows whose Status is exactly
\* 'Outstanding' or 'Partial Payment', totalReceivables sums their Balance
\* Due, and totalAtRiskAmount/atRiskInvoiceCount are the sum and the count
\* over the active rows with Days Past Due > 0.
C11_ActiveIsExactStatus ==
    ( /\ Called("get_invoices_stats")
      /\ HasColumns(RowsOf(call[1].input, FILE_AR_RECORDS),
                    {"Status", "Days Past Due", "Balance Due"}) )
    => LET expected == ExpectedReceivables(RowsOf(call[1].input, FILE_AR_RECORDS),
                                           {StrCell(OUTSTANDING), StrCell(PARTIAL_PAYMENT)})
       IN  \A k \in DOMAIN expected : call[1].value[k] = expected[k]

(***************************************************************************)
(* The shortfall walk over listings made for it: starting balances at and  *)
(* around the priority thresholds, months without any flow, and expenses   *)
(* that make the balance recover and fall again.                           *)
(***************************************************************************)
ShortfallBankData ==
    {<<("Net Amount" :> StrCell(c))>> :
        c \in {<<"-", "2", "0", "0">>, <<"-", "1", "0", "0", "0", "0", "0">>, <<"-", "1", "0", "0", "0", "0", "0", ".", "1">>, <<"-", "2", "0", "0", "0", "0", "0">>, <<"-", "2", "0", "0", "0", "0", "0", ".", "1">>, <<"-", "3", "0", "0", "0", "0", "0">>}}

ShortfallCollections ==
    {mock_collections,
     <<("Month" :> StrCell(<<"J", "a", "n", " ", "2", "0", "2", "5">>)) @@ ("Total Collections" :> StrCell(<<"0">>))>>}

ShortfallExpensesRows ==
    {("Month" :> StrCell(<<"D", "e", "c", " ", "2", "0", "2", "4">>)) @@ ("Total Expenses" :> StrCell(<<"0">>)),
     ("Month" :> StrCell(<<"J", "a", "n", " ", "2", "0", "2", "5">>)) @@ ("Total Expenses" :> StrCell(<<"0">>)),
     ("Month" :> StrCell(<<"F", "e", "b", " ", "2", "0", "2", "5">>)) @@ ("Total Expenses" :> StrCell(<<"1", "2", "0", "0", "0">>))}

IsShortfallListing(docs) ==
    \E bank \in ShortfallBankData, collections \in ShortfallCollections :
        \E rows \in SeqsUpTo(ShortfallExpensesRows, MaxRows) :
            docs = ScenarioListing(bank, collections, rows)

InitShortfalls ==
    /\ IsShortfallListing(documents)
    /\ call = <<>>
    /\ filename_part = <<>>
    /\ found = <<>>
    /\ cell = NoneCell
    /\ coerced = <<>>
    /\ uploads = <<>>

NextShortfalls ==
    \/ GetCashShortfalls
    \/ GetScenarioAnalysis

SpecShortfalls == InitShortfalls /\ [][NextShortfalls]_vars

\* the pessimistic balances after each merged month of a listing, from the
\* table of cells: the bank total, then 0.85 of the collections less 1.10
\* of the expenses, month by month
PessimisticWalk(docs) ==
    LET rows == merged_months(docs).rows
        start == SumSeq(AmountsOf(docs, FILE_BANK_SUMMARY, "Net Amount")) * PctScale
    IN  [i \in DOMAIN rows |->
            start + SumSeq([j \in 1..i |-> rows[j].collections * 85 - rows[j].expenses * 110])]

\* the indexes of the negative entries of a sequence of balances, in order
NegativeAt(balances) ==
    SelectSeq([i \in DOMAIN balances |-> i], LAMBDA i : balances[i] < 0)

\* C12: a period is recorded exactly for the months after which the running
\* pessimistic balance is negative, in order, with closingBalance < 0 and
\* shortfall = -closingBalance > 0; the walk goes on after a shortfall, so
\* every negative month has its own record.
C12_PeriodPerNegativeMonth ==
    Called("get_cash_shortfalls") =>
        LET periods == call[1].value.periods
            walk == PessimisticWalk(call[1].input)
            at == NegativeAt(walk)
        IN  /\ Len(periods) = Len(at)
            /\ \A k \in DOMAIN periods :
                  /\ periods[k].week = merged_months(call[1].input).rows[at[k]].Month
                  /\ periods[k].closingBalance = walk[at[k]]
                  /\ periods[k].closingBalance < 0
                  /\ periods[k].shortfall = -periods[k].closingBalance
                  /\ periods[k].shortfall > 0

\* the balance is negative after the first month, recovers after the second
\* and is negative again after the third: two records
C12_Witness ==
    /\ Called("get_cash_shortfalls")
    /\ LET walk == PessimisticWalk(call[1].input)
       IN  /\ Len(walk) = 3
           /\ walk[1] < 0 /\ walk[2] >= 0 /\ walk[3] < 0
    /\ Len(call[1].value.periods) = 2

\* the month labels of the rows of a document of the listing
LabelsOf(docs, filename) ==
    {RowsOf(docs, filename)[i]["Month"].s : i \in DOMAIN RowsOf(docs, filename)}

\* C13: every month label of either input appears exactly once in the
\* merged output, also when an input repeats a label, and the collections
\* (expenses) of a label that the collections (expenses) input lacks are 0.
C13_EveryLabelExactlyOnce ==
    ( /\ Called("get_cash_flow_data")
      /\ HasColumns(RowsOf(call[1].input, FILE_MONTHLY_FORECAST), {"Month", "Total Collections"})
      /\ HasColumns(RowsOf(call[1].input, FILE_EXPENSE_FORECAST), {"Month", "Total Expenses"}) )
    => LET labels == call[1].value.labels
           inflows == call[1].value.datasets[1].data
           outflows == call[1].value.datasets[2].data
           ins == LabelsOf(call[1].input, FILE_MONTHLY_FORECAST)
           outs == LabelsOf(call[1].input, FILE_EXPENSE_FORECAST)
       IN  /\ {labels[i] : i \in DOMAIN labels} = ins \cup outs
           /\ \A i, j \in DOMAIN labels : labels[i] = labels[j] => i = j
           /\ \A i \in DOMAIN labels :
                 /\ labels[i] \notin ins => inflows[i] = 0
                 /\ labels[i] \notin outs => outflows[i] = 0

\* the text that a record should carry for a column of a raw row
TextOr(row, column, default) ==
    IF column \in DOMAIN row THEN row[column].s ELSE default

\* C14: with fewer than 3 of the 5 key columns the result of
\* get_invoices_data is empty; with at least 3 it holds exactly one record
\* per input row, in row order.
C14_OneRecordPerRow ==
    Called("get_invoices_data") =>
        LET rows == RowsOf(call[1].input, FILE_AR_RECORDS)
            invoices == call[1].value
        IN  IF Cardinality(INVOICE_KEY_COLUMNS \cap Columns(rows)) < 3
            THEN invoices = <<>>
            ELSE /\ Len(invoices) = Len(rows)
                 /\ \A i \in DOMAIN rows :
                       /\ invoices[i].id = TextOr(rows[i], "Invoice Number", <<"U", "N", "K", "N", "O", "W", "N">>)
                       /\ invoices[i].customer = TextOr(rows[i], "Customer Name", <<"U", "n", "k", "n", "o", "w", "n">>)

\* the risk that a status text and a number of days past due (in tenths)
\* should give
ExpectedRisk(status, days) ==
    IF ~(Contains(status, <<"O", "u", "t", "s", "t", "a", "n", "d", "i", "n", "g">>) \/ Contains(status, <<"P", "a", "r", "t", "i", "a", "l">>)) \/ days <= 0
    THEN <<0, "Low Risk">>
    ELSE IF days <= 30 * FixScale THEN <<30, "Medium Risk">>
    ELSE IF days <= 90 * FixScale THEN <<60, "High Risk">>
    ELSE <<90, "Critical Risk">>

\* C15: the risk score and the prediction of every record follow from its
\* status and the Days Past Due of its row alone: 90/60/30/0 for more than
\* 90, more than 30, more than 0 and no days past due when the status
\* contains 'Outstanding' or 'Partial', and 0 'Low Risk' for any other
\* status; the score lies within 0..100.
C15_RiskFromStatusAndDays ==
    Called("get_invoices_data") =>
        \A i \in DOMAIN call[1].value :
            LET inv == call[1].value[i]
                row == RowsOf(call[1].input, FILE_AR_RECORDS)[i]
                days == IF "Days Past Due" \in DOMAIN row THEN Tenths[row["Days Past Due"]]
                        ELSE 0
            IN  /\ <<inv.riskScore, inv.aiPrediction>> = ExpectedRisk(inv.status, days)
                /\ inv.riskScore \in 0..100

\* a partially paid invoice exactly 90 days past due is a high risk, not a
\* critical one
C15_Witness ==
    /\ Called("get_invoices_data")
    /\ Len(call[1].value) = 1
    /\ call[1].value[1].status = <<"P", "a", "r", "t", "i", "a", "l">>
    /\ RowsOf(call[1].input, FILE_AR_RECORDS)[1]["Days Past Due"] = StrCell(<<"9", "0">>)
    /\ call[1].value[1].riskScore = 60
    /\ call[1].value[1].aiPrediction = "High Risk"

(***************************************************************************)
(* The seven entry points of the engine called one after another, in any   *)
(* order, on the same documents.  The entry points are static methods with *)
(* local variables only and run to completion without yielding, so a call  *)
(* is one step whatever the order in which requests arrive.                *)
(***************************************************************************)
IsEngineListing(docs) ==
    \/ \E keep \in SUBSET (1..Len(FixtureDocuments)) : docs = Restrict(FixtureDocuments, keep, {})
    \/ \E row \in BankRows : docs = WithRows(FILE_BANK_SUMMARY, <<row>>)
    \/ \E row \in SomeInvoiceRows : docs = WithRows(FILE_AR_RECORDS, <<row>>)
    \/ \E bank \in ScenarioBankData : docs = ScenarioListing(bank, mock_collections, mock_expenses)

InitEngine ==
    /\ IsEngineListing(documents)
    /\ call = <<>>
    /\ filename_part = <<>>
    /\ found = <<>>
    /\ cell = NoneCell
    /\ coerced = <<>>
    /\ uploads = <<>>

NextEngine ==
    \/ CalculateStats(documents)
    \/ GetCashForecastData
    \/ GetCashFlowData
    \/ GetScenarioAnalysis
    \/ GetCashShortfalls
    \/ GetInvoicesData
    \/ GetInvoicesStats

SpecEngine == InitEngine /\ [][NextEngine]_vars

\* what one isolated call of an entry point returns for the given documents
IsolatedCall(op, docs) ==
    CASE op = "calculate_stats" -> calculate_stats(docs)
      [] op = "get_cash_forecast_data" -> get_cash_forecast_data(docs)
      [] op = "get_cash_flow_data" -> get_cash_flow_data(docs)
      [] op = "get_scenario_analysis" -> get_scenario_analysis(docs)
      [] op = "get_cash_shortfalls" -> get_cash_shortfalls(docs)
      [] op = "get_invoices_data" -> get_invoices_data(docs)
      [] op = "get_invoices_stats" -> get_invoices_stats(docs)

\* some text cell of the documents still holds a '$' or a ','
HoldsRawCurrency(docs) ==
    \E i \in 1..Len(docs) : \E r \in 1..Len(docs[i].full_data) :
        \E c \in DOMAIN docs[i].full_data[r] :
            LET x == docs[i].full_data[r][c]
            IN  x.k = "str" /\ RemoveChars(x.s, {"$", ","}) # x.s

RunwayBankData ==
    {mock_bank_data, <<>>}
    \cup {<<("Net Amount" :> StrCell(c))>> : c \in {<<"3", "6", "5">>, <<"3", "6", "4">>, <<"1", "0", "0", "0", "0">>, <<"-", "2", "0", "0">>, <<"n", "/", "a">>, <<"3">>}}

RunwayExpenseRows ==
    {ExpenseRow(<<"J", "a", "n", " ", "2", "0", "2", "5">>, <<"3">>, <<"0">>),
     ExpenseRow(<<"J", "a", "n", " ", "2", "0", "2", "5">>, <<"1", "2", "0", "0", "0">>, <<"1", "0", "0", "0", "0">>),
     ExpenseRow(<<"J", "a", "n", " ", "2", "0", "2", "5">>, <<"1", "8", "0", "0", "0">>, <<"2", "0", "0", "0", "0">>),
     ExpenseRow(<<"F", "e", "b", " ", "2", "0", "2", "5">>, <<"$", "1", ",", "2", "0", "0", ".", "5", "0">>, <<"n", "/", "a">>),
     ExpenseRow(<<"M", "a", "r", " ", "2", "0", "2", "5">>, <<"0">>, <<"0">>)}

RunwayColumns ==
    {<<FILE_EXPENSE_FORECAST, "Total Expenses">>, <<FILE_EXPENSE_FORECAST, "Estimated Revenue">>}

IsRunwayListing(docs) ==
    \E bank \in RunwayBankData :
        \/ \E rows \in SeqsUpTo(RunwayExpenseRows, MaxRows), dropped \in SUBSET RunwayColumns :
              docs = Restrict(ScenarioListing(bank, mock_monthly_collections, rows),
                              1..Len(FixtureDocuments), dropped)
        \/ docs = Restrict(ScenarioListing(bank, mock_monthly_collections, mock_expense_data),
                           {i \in 1..Len(FixtureDocuments) :
                               FixtureDocuments[i].filename # FILE_EXPENSE_FORECAST}, {})

InitRunway ==
    /\ IsRunwayListing(documents)
    /\ call = <<>>
    /\ filename_part = <<>>
    /\ found = <<>>
    /\ cell = NoneCell
    /\ coerced = <<>>
    /\ uploads = <<>>

NextRunway == CalculateStats(documents)

SpecRunway == InitRunway /\ [][NextRunway]_vars

\* the runway of the claim for a current position and n rows whose expenses
\* less revenue add up to burn_n, all in tenths; 0 - 1 where it is not stated
ExpectedRunway(current, n, burn_n) ==
    IF burn_n > 0 /\ current > 0
    THEN IF current * n * 30 >= 3650 * burn_n THEN 9999
         ELSE CHOOSE d \in 0..3649 : d * burn_n <= current * n * 30 /\ current * n * 30 < (d + 1) * burn_n
    ELSE IF burn_n <= 0 THEN 999
    ELSE 0 - 1

\* C17: the cash runway is current / burn * 30 truncated, 9999 from 3650 on,
\* when the mean burn and the current position are positive; 999 when the
\* burn is not positive; 0 when the expense forecast or a column is absent.
C17_CashRunway ==
    Called("calculate_stats") =>
        LET input == call[1].input
            value == call[1].value
            data == RowsOf(input, FILE_EXPENSE_FORECAST)
            burn_n == SumSeq(AmountsOf(input, FILE_EXPENSE_FORECAST, "Total Expenses"))
                      - SumSeq(AmountsOf(input, FILE_EXPENSE_FORECAST, "Estimated Revenue"))
            expected == ExpectedRunway(value.current, Len(data), burn_n)
        IN  IF HasColumns(data, {"Total Expenses", "Estimated Revenue"})
            THEN expected >= 0 => value.cashRunway = expected
            ELSE value.cashRunway = 0

\* a position of 365 and a burn of 3 a month make exactly 3650 days, which
\* is reported as 9999
C17_Witness ==
    /\ Called("calculate_stats")
    /\ call[1].value.current = Tenths[StrCell(<<"3", "6", "5">>)]
    /\ RowsOf(call[1].input, FILE_EXPENSE_FORECAST) = <<ExpenseRow(<<"J", "a", "n", " ", "2", "0", "2", "5">>, <<"3">>, <<"0">>)>>
    /\ call[1].value.cashRunway = 9999

\* the running balances of the claim: the bank total and the sums, row by
\* row, of the collections and expenses under the given percentages
SeriesOf(docs, collections_pct, expenses_pct) ==
    LET rows == merged_months(docs).rows
        B == SumSeq(AmountsOf(docs, FILE_BANK_SUMMARY, "Net Amount")) * 100
    IN  [i \in DOMAIN rows |->
            B + SumSeq([j \in 1..i |-> rows[j].collections * collections_pct
                                       - rows[j].expenses * expenses_pct])]

\* C18: the three series have the length of the label list and are the
\* running sums, over the same sorted rows and from the same bank total, of
\* collections - expenses (Expected), collections*1.15 - expenses*0.95
\* (Optimistic) and collections*0.85 - expenses*1.10 (Pessimistic).
C18_SeriesInLockstep ==
    (Called("get_scenario_analysis") /\ call[1].value.datasets # <<>>) =>
        LET input == call[1].input
            value == call[1].value
            rows == merged_months(input).rows
        IN  /\ value.labels = [i \in DOMAIN rows |-> rows[i].Month]
            /\ Len(value.datasets) = 3
            /\ \A k \in 1..3 : Len(value.datasets[k].data) = Len(value.labels)
            /\ value.datasets[1].label = "Optimistic"
            /\ value.datasets[1].data = SeriesOf(input, 115, 95)
            /\ value.datasets[2].label = "Expected"
            /\ value.datasets[2].data = SeriesOf(input, 100, 100)
            /\ value.datasets[3].label = "Pessimistic"
            /\ value.datasets[3].data = SeriesOf(input, 85, 110)

\* from a bank total of -200, collections of 10000 in Jan 2025 and expenses
\* of 12000 in Jan 2025 and in Feb 2025: Expected -2200 then -14200,
\* Optimistic -100 then -11500, Pessimistic -4900 then -18100
C18_Witness ==
    /\ Called("get_scenario_analysis")
    /\ call[1].value.labels = <<<<"J", "a", "n", " ", "2", "0", "2", "5">>, <<"F", "e", "b", " ", "2", "0", "2", "5">>>>
    /\ call[1].value.datasets[2].data = <<-2200000, -14200000>>
    /\ call[1].value.datasets[1].data = <<-100000, -11500000>>
    /\ call[1].value.datasets[3].data = <<-4900000, -18100000>>

\* the Pessimistic series of a scenario analysis, empty when it has none
PessimisticOf(scenario) ==
    IF scenario.datasets = <<>> THEN <<>> ELSE scenario.datasets[3].data

\* C19: on the same documents the periods of get_cash_shortfalls are, in
\* order, the months at which the Pessimistic series of
\* get_scenario_analysis is negative, and each closingBalance is the
\* Pessimistic value at that month.
C19_ShortfallsAgreeWithScenario ==
    /\ Called("get_cash_shortfalls") =>
          LET scenario == get_scenario_analysis(call[1].input)
              at == NegativeAt(PessimisticOf(scenario))
              periods == call[1].value.periods
          IN  /\ Len(periods) = Len(at)
              /\ \A k \in DOMAIN periods :
                    /\ periods[k].week = scenario.labels[at[k]]
                    /\ periods[k].closingBalance = PessimisticOf(scenario)[at[k]]
    /\ Called("get_scenario_analysis") =>
          LET periods == get_cash_shortfalls(call[1].input).periods
              at == NegativeAt(PessimisticOf(call[1].value))
          IN  /\ Len(periods) = Len(at)
              /\ \A k \in DOMAIN periods :
                    /\ periods[k].week = call[1].value.labels[at[k]]
                    /\ periods[k].closingBalance = PessimisticOf(call[1].value)[at[k]]

\* the Pessimistic series is negative at the first and at the third of
\* three months, and the shortfalls of the same documents are those two
C19_Witness ==
    /\ Called("get_scenario_analysis")
    /\ Len(call[1].value.labels) = 3
    /\ NegativeAt(PessimisticOf(call[1].value)) = <<1, 3>>
    /\ Len(get_cash_shortfalls(call[1].input).periods) = 2
    /\ get_cash_shortfalls(call[1].input).periods[2].week = call[1].value.labels[3]

\* the priority the claim gives to a shortfall amount, in thousandths
ExpectedPriority(amount) ==
    IF amount > 200000 * 1000 THEN "High"
    ELSE IF amount > 100000 * 1000 /\ amount <= 200000 * 1000 THEN "Medium"
    ELSE "Low"

\* C20: every recorded period has priority High above 200000, Medium above
\* 100000 and up to 200000, Low otherwise.
C20_PriorityFromAmount ==
    Called("get_cash_shortfalls") =>
        \A k \in DOMAIN call[1].value.periods :
            LET period == call[1].value.periods[k]
            IN  /\ period.priority = ExpectedPriority(period.shortfall)
                /\ period.priority \in {"High", "Medium", "Low"}

\* a bank total of -200000 and a month without collections or expenses: the
\* shortfall is exactly 200000 and its priority is Medium
C20_Witness ==
    /\ Called("get_cash_shortfalls")
    /\ Len(call[1].value.periods) >= 1
    /\ call[1].value.periods[1].shortfall = 200000 * 1000
    /\ call[1].value.periods[1].priority = "Medium"
    /\ SumSeq(AmountsOf(call[1].input, FILE_BANK_SUMMARY, "Net Amount")) = -2000000

\* the series of the claim, in fortieths: current + i * weeklyChange
ExpectedForecastPoint(docs, i) ==
    LET current == SumSeq(AmountsOf(docs, FILE_BANK_SUMMARY, "Net Amount"))
        rows == RowsOf(docs, FILE_CASH_FLOW_ANALYSIS)
        monthlyChange == IF HasColumns(rows, {"Net Cash Flow"})
                         THEN Tenths[rows[1]["Net Cash Flow"]] ELSE 0
        \* four times the weekly change
        weeklyChange4 == IF monthlyChange # 0 THEN monthlyChange ELSE 400000 * 10 * 4
    IN  current * 4 + i * weeklyChange4

\* C21: actual is current + i*weeklyChange at indices 0..3 and null at 4..7;
\* forecast is null at 0..2, actual[3] at index 3 and actual[3] +
\* j*weeklyChange at index 3+j; weeklyChange is a quarter of the first row's
\* 'Net Cash Flow', or 400000 when that is 0.
C21_ForecastSeries ==
    Called("get_cash_forecast_data") =>
        LET input == call[1].input
            actual == call[1].value.datasets[1].data
            forecast == call[1].value.datasets[2].data
        IN  /\ \A i \in 0..3 : actual[i + 1] = <<ExpectedForecastPoint(input, i)>>
            /\ \A i \in 4..7 : actual[i + 1] = <<>>
            /\ \A i \in 0..2 : forecast[i + 1] = <<>>
            /\ forecast[4] = actual[4]
            /\ \A j \in 1..4 : forecast[4 + j] = <<ExpectedForecastPoint(input, 3 + j)>>

\* two rows of cash-flow analysis, '$6,000' first: the weekly change is 1500
\* and the second actual point is the fixture's 3600 plus 1500
C21_Witness ==
    /\ Called("get_cash_forecast_data")
    /\ Len(RowsOf(call[1].input, FILE_CASH_FLOW_ANALYSIS)) = 2
    /\ RowsOf(call[1].input, FILE_CASH_FLOW_ANALYSIS)[1]["Net Cash Flow"] = StrCell(<<"$", "6", ",", "0", "0", "0">>)
    /\ RowsOf(call[1].input, FILE_CASH_FLOW_ANALYSIS)[2]["Net Cash Flow"] = StrCell(<<"5", "3", "5", "0", ".", "5", "0">>)
    /\ call[1].value.datasets[1].data[2] = <<(3600 + 1500) * 40>>
    /\ call[1].value.datasets[2].data[8] = <<(3600 + 7 * 1500) * 40>>

\* the test of line 31 on one document: lowercased and without spaces, the
\* target is in the filename or the filename is in the target
MatchesTarget(doc, part) ==
    LET squeezed(name) == SelectSeq(Lower(name), LAMBDA c : c # " ")
    IN  \/ Contains(squeezed(doc.filename), squeezed(part))
        \/ Contains(squeezed(part), squeezed(doc.filename))

\* C22: the document returned is the first match in the order of the list;
\* when several documents match, the same list in the opposite order gives
\* another document.
C22_FirstMatchInInputOrder ==
    found # <<>> =>
        LET hits == {i \in 1..Len(documents) : MatchesTarget(documents[i], filename_part)}
            turned == Reverse(documents)
            other == find_document_by_name(turned, filename_part)
        IN  /\ hits = {} => found[1] = 0
            /\ hits # {} => found[1] \in hits /\ \A j \in hits : found[1] <= j
            /\ Cardinality(hits) >= 2 =>
                  /\ other # 0
                  /\ turned[other].filename # documents[found[1]].filename
                  /\ \A j \in hits : Len(documents) + 1 - other >= j

\* both documents of the listing match the target and the first is returned
C22_Witness ==
    /\ found = <<1>>
    /\ Len(documents) = 2
    /\ \A i \in 1..2 : MatchesTarget(documents[i], filename_part)
    /\ documents[1].filename # documents[2].filename

(***************************************************************************)
(* The monthly engine over collections whose month labels include texts    *)
(* that are no month: a word, the empty text and 'nan'.                    *)
(***************************************************************************)
MonthLabels == {<<"J", "a", "n", " ", "2", "0", "2", "5">>, <<"D", "e", "c", " ", "2", "0", "2", "4">>, <<"T", "o", "t", "a", "l">>, <<>>, <<"n", "a", "n">>}

LabelledCollections ==
    {("Month" :> StrCell(m)) @@ ("Total Collections" :> StrCell(<<"1", "0", "0", "0", "0">>)) : m \in MonthLabels}

MonthlyFiles == {FILE_MONTHLY_FORECAST, FILE_EXPENSE_FORECAST}

MonthlyColumns ==
    {<<FILE_MONTHLY_FORECAST, "Month">>, <<FILE_MONTHLY_FORECAST, "Total Collections">>,
     <<FILE_EXPENSE_FORECAST, "Month">>, <<FILE_EXPENSE_FORECAST, "Total Expenses">>}

IsMonthListing(docs) ==
    \/ \E rows \in SeqsUpTo(LabelledCollections, MaxRows) :
          \E expenses \in {mock_expenses,
                           <<("Month" :> StrCell(<<"T", "o", "t", "a", "l">>)) @@ ("Total Expenses" :> StrCell(<<"1", "2", "0", "0", "0">>))>>} :
              docs = ScenarioListing(mock_bank_data, rows, expenses)
    \/ \E bank \in ScenarioBankData, collections \in {mock_collections, <<>>},
          expenses \in {mock_expenses, <<>>}, keep \in SUBSET MonthlyFiles,
          dropped \in SUBSET MonthlyColumns :
              docs = Restrict(ScenarioListing(bank, collections, expenses),
                              {i \in 1..Len(FixtureDocuments) :
                                  FixtureDocuments[i].filename \in MonthlyFiles
                                      => FixtureDocuments[i].filename \in keep},
                              dropped)

InitMonths ==
    /\ IsMonthListing(documents)
    /\ call = <<>>
    /\ filename_part = <<>>
    /\ found = <<>>
    /\ cell = NoneCell
    /\ coerced = <<>>
    /\ uploads = <<>>

NextMonths ==
    \/ GetCashFlowData
    \/ GetScenarioAnalysis
    \/ GetCashShortfalls

SpecMonths == InitMonths /\ [][NextMonths]_vars

\* the month key of the claim: the date of a label in 'Jan 2025' form,
\* counted in months, and the minimal key 0 for a label that is no date
MonthKey(label) ==
    IF label = <<"J", "a", "n", " ", "2", "0", "2", "5">> THEN 2025 * 12 + 1
    ELSE IF label = <<"F", "e", "b", " ", "2", "0", "2", "5">> THEN 2025 * 12 + 2
    ELSE IF label = <<"D", "e", "c", " ", "2", "0", "2", "4">> THEN 2024 * 12 + 12
    ELSE 0

\* C23: the merged rows come in non-decreasing order of their month key,
\* where a label that is no date has the minimal key and so precedes every
\* label that is one.
C23_SortedByMonthKey ==
    Called("get_cash_flow_data") =>
        LET labels == call[1].value.labels
        IN  \A i, j \in DOMAIN labels : i < j => MonthKey(labels[i]) <= MonthKey(labels[j])

\* the document is absent or empty, or lacks its 'Month' or amount column
Unusable(docs, filename, amount) == ~HasColumns(RowsOf(docs, filename), {"Month", amount})

\* C24: when the monthly collections or the monthly expenses are absent,
\* empty or without their 'Month' or amount column, the scenario analysis
\* and the cash-flow chart are empty and there is no shortfall, whatever the
\* other document and the starting balance.
C24_EmptyWithoutBothMonthlySeries ==
    ( /\ call # <<>>
      /\ \/ Unusable(call[1].input, FILE_MONTHLY_FORECAST, "Total Collections")
         \/ Unusable(call[1].input, FILE_EXPENSE_FORECAST, "Total Expenses") )
    => LET value == call[1].value
       IN  /\ call[1].op \in {"get_scenario_analysis", "get_cash_flow_data"}
                => value.labels = <<>> /\ value.datasets = <<>>
           /\ call[1].op = "get_cash_shortfalls"
                => /\ value.periods = <<>>
                   /\ value.totalShortfall = 0
                   /\ value.hasShortfalls = FALSE

\* the bank total is -200, the expenses of Jan 2025 are there and the
\* collections have no 'Month' column: no shortfall is reported
C24_Witness ==
    /\ Called("get_cash_shortfalls")
    /\ SumSeq(AmountsOf(call[1].input, FILE_BANK_SUMMARY, "Net Amount")) = -2000
    /\ RowsOf(call[1].input, FILE_EXPENSE_FORECAST) = mock_expenses
    /\ RowsOf(call[1].input, FILE_MONTHLY_FORECAST)
         = <<("Total Collections" :> StrCell(<<"1", "0", "0", "0", "0">>))>>
    /\ call[1].value.periods = <<>>
    /\ ~call[1].value.hasShortfalls

\* the rate the claim gives for a cell: the number it shows, or 0.0 for a
\* cell that shows none
RateOf(c) ==
    IF c \in {StrCell(<<"7", "5", ".", "5", "%">>), FloatCell(755, 1)} THEN Dec(755, 1)
    ELSE IF c = StrCell(<<"7", "1", ".", "1">>) THEN Dec(711, 1)
    ELSE IF c = StrCell(<<"7", "8", ".", "0", "%">>) THEN Dec(78, 0)
    ELSE Zero

ReceivableKeys ==
    {"totalReceivables", "activeInvoiceCount", "totalAtRiskAmount", "atRiskInvoiceCount"}

\* C25: collectionRate is the number of the 'Collection Rate %' cell of the
\* first row of the monthly forecast, '%' removed and not divided by 100,
\* and 0.0 when the document, the column or a number in the cell is
\* missing; the AR figures are what they are with the fixture's forecast.
C25_CollectionRateOfFirstRow ==
    Called("get_invoices_stats") =>
        LET input == call[1].input
            value == call[1].value
            rows == RowsOf(input, FILE_MONTHLY_FORECAST)
            ar == RowsOf(input, FILE_AR_RECORDS)
        IN  /\ value.collectionRate
                 = IF HasColumns(rows, {"Collection Rate %"})
                   THEN RateOf(rows[1]["Collection Rate %"]) ELSE Zero
            /\ \A k \in ReceivableKeys :
                  value[k] = get_invoices_stats(WithRows(FILE_AR_RECORDS, ar))[k]

\* C26: every record returned by get_invoices_data has an amount that is at
\* least 0, whatever the Balance Due of its row.
C26_AmountNonNegative ==
    Called("get_invoices_data") =>
        \A i \in 1..Len(call[1].value) :
            ~call[1].value[i].amount.nan /\ call[1].value[i].amount.m >= 0

\* the characters of a text that are a digit, '.' or '-'
NumberChars(s) == SelectSeq(s, LAMBDA c : IsDigit(c) \/ c \in {".", "-"})

\* C27: the coerced value of a text cell is the float of the text without
\* every character that is no digit, '.' or '-' ('1%' gives 1, '1 0' gives
\* 10), and 0.0 only when that remainder is no number.
C27_CoercionStripsAllButNumberChars ==
    (coerced # <<>> /\ cell.k = "str") =>
        coerced[1].value = IF float_text(NumberChars(cell.s)).ok
                           THEN float_text(NumberChars(cell.s)).value ELSE Zero

\* C28: on the same documents calculate_stats and get_invoices_stats report
\* the same at-risk figures (atRiskInvoices = totalAtRiskAmount and
\* overdueInvoicesCount = atRiskInvoiceCount), and atRiskInvoiceCount is at
\* most activeInvoiceCount.
C28_AtRiskFiguresAgree ==
    Called("get_invoices_stats") =>
        LET stats == calculate_stats(call[1].input)
            value == call[1].value
        IN  /\ value.totalAtRiskAmount = stats.atRiskInvoices
            /\ value.atRiskInvoiceCount = stats.overdueInvoicesCount
            /\ value.atRiskInvoiceCount <= value.activeInvoiceCount

\* two active invoices of which one is past due
C28_Witness ==
    /\ Called("get_invoices_stats")
    /\ call[1].value.activeInvoiceCount = 2
    /\ call[1].value.atRiskInvoiceCount = 1
    /\ call[1].value.totalAtRiskAmount = 10000

MaxUploads == 2

MaxBatch == 2

ALLOWED_EXTENSIONS == {<<".", "c", "s", "v">>, <<".", "x", "l", "s", "x">>, <<".", "x", "l", "s">>}

\* s.endswith(suffix)
EndsWith(s, suffix) ==
    Len(s) >= Len(suffix) /\ SubSeq(s, Len(s) - Len(suffix) + 1, Len(s)) = suffix

\* an uploaded file: its name and what its bytes hold: "rows" for a header
\* and data, "header_only", "no_data" for no column at all, "oversize"
UploadedFile(filename, content) == [filename |-> filename, content |-> content]

\* CSVService.validate_file: the status of the exception raised, 0 for none
validate_file(file) ==
    IF \E ext \in ALLOWED_EXTENSIONS : EndsWith(Lower(file.filename), ext) THEN 0 ELSE 400

\* CSVRepository.document_exists_by_filename
document_exists_by_filename(docs, filename) ==
    \E i \in 1..Len(docs) : docs[i].filename = filename

\* The size check and CSVService.parse_csv_content: the status of the
\* exception raised, 0 for none.  The 400 raised for an empty frame is
\* caught by the last except clause of parse_csv_content and becomes 500.
parse_csv_content(file) ==
    CASE file.content = "oversize" -> [status |-> 413, full_data |-> <<>>]
      [] file.content = "no_data" -> [status |-> 400, full_data |-> <<>>]
      [] file.content = "header_only" -> [status |-> 500, full_data |-> <<>>]
      [] OTHER -> [status |-> 0, full_data |-> <<("Net Amount" :> IntCell(1000))>>]

\* CSVRepository.create_document: the commit raises on the unique index of
\* filename, otherwise the row is the most recent of the table
create_document(docs, filename, full_data) ==
    IF \E i \in 1..Len(docs) : docs[i].filename = filename
    THEN [raised |-> TRUE, docs |-> docs]
    ELSE [raised |-> FALSE, docs |-> <<Document(filename, full_data)>> \o docs]

\* a request that has not started: at is the index of the file at hand,
\* status is 0 until the request ends, then the HTTP status of its answer
UploadRequest(kind, files) ==
    [kind |-> kind, files |-> files, at |-> 1, pc |-> "check", status |-> 0,
     results |-> <<>>]

\* the request ends with the exception of the given status
Failed(u, status) ==
    [uploads EXCEPT ![u].pc = "done", ![u].status = status]

\* validate_file and the check for a duplicate file name, up to the await
\* of file.read()
UploadCheck(u) ==
    /\ uploads[u].pc = "check"
    /\ LET file == uploads[u].files[uploads[u].at]
       IN  uploads' = IF validate_file(file) # 0 THEN Failed(u, validate_file(file))
                      ELSE IF document_exists_by_filename(documents, file.filename)
                      THEN Failed(u, 409)
                      ELSE [uploads EXCEPT ![u].pc = "read"]
    /\ UNCHANGED <<documents, call, filename_part, found, cell, coerced>>

\* the read of the bytes, the size check and the parse, up to the await of
\* create_document
UploadRead(u) ==
    /\ uploads[u].pc = "read"
    /\ LET parsed == parse_csv_content(uploads[u].files[uploads[u].at])
       IN  uploads' = IF parsed.status # 0 THEN Failed(u, parsed.status)
                      ELSE [uploads EXCEPT ![u].pc = "create"]
    /\ UNCHANGED <<documents, call, filename_part, found, cell, coerced>>

\* create_document and what follows it: an exception of the commit is no
\* HTTPException and is answered with 500; after the last file the request
\* answers with the documents it created
UploadCreate(u) ==
    /\ uploads[u].pc = "create"
    /\ LET file == uploads[u].files[uploads[u].at]
           created == create_document(documents, file.filename,
                                      parse_csv_content(file).full_data)
           last == uploads[u].at = Len(uploads[u].files)
       IN  /\ documents' = created.docs
           /\ uploads' = IF created.raised THEN Failed(u, 500)
                         ELSE [uploads EXCEPT
                                  ![u].results = Append(@, file.filename),
                                  ![u].at = IF last THEN @ ELSE @ + 1,
                                  ![u].pc = IF last THEN "done" ELSE "check",
                                  ![u].status = IF last THEN 200 ELSE 0]
    /\ UNCHANGED <<call, filename_part, found, cell, coerced>>

\* files with names that differ, that agree, that differ in case only, and
\* with a name that is no CSV file
UploadedFiles ==
    {UploadedFile(<<"a", ".", "c", "s", "v">>, "rows"), UploadedFile(<<"b", ".", "c", "s", "v">>, "rows"),
     UploadedFile(<<"a", ".", "c", "s", "v">>, "header_only"), UploadedFile(<<"b", ".", "c", "s", "v">>, "no_data"),
     UploadedFile(<<"A", ".", "C", "S", "V">>, "oversize"), UploadedFile(<<"a", ".", "t", "x", "t">>, "rows")}

UploadRequests ==
    {UploadRequest("single", <<f>>) : f \in UploadedFiles}
    \cup {UploadRequest("batch", files) :
             files \in SeqsUpTo({f \in UploadedFiles : f.content = "rows"}, MaxBatch) \ {<<>>}}

InitUpload ==
    /\ documents \in {<<>>, <<Document(<<"a", ".", "c", "s", "v">>, <<>>)>>}
    /\ uploads \in SeqsUpTo(UploadRequests, MaxUploads) \ {<<>>}
    /\ call = <<>>
    /\ filename_part = <<>>
    /\ found = <<>>
    /\ cell = NoneCell
    /\ coerced = <<>>

NextUpload ==
    \/ \E u \in DOMAIN uploads : UploadCheck(u)
    \/ \E u \in DOMAIN uploads : UploadRead(u)
    \/ \E u \in DOMAIN uploads : UploadCreate(u)

SpecUpload == InitUpload /\ [][NextUpload]_vars

\* the names of the stored documents
StoredNames(docs) == {docs[i].filename : i \in 1..Len(docs)}

\* request u takes a step on a file whose name is stored when the step
\* begins: it ends with 409 and the table is as before
RefusesStoredName(u) ==
    ( /\ uploads'[u] # uploads[u]
      /\ uploads[u].pc \in {"check", "create"}
      /\ validate_file(uploads[u].files[uploads[u].at]) = 0
      /\ uploads[u].files[uploads[u].at].filename \in StoredNames(documents) )
    => /\ uploads'[u].status = 409
       /\ documents' = documents

\* C30: under any interleaving of uploads at most one stored document has a
\* given file name, and every upload of a file name that is already stored
\* creates no document and fails with status 409.
C30_DuplicateUploadRefusedWith409 ==
    /\ [](DistinctNames(documents))
    /\ [][\A u \in DOMAIN uploads : RefusesStoredName(u)]_vars

====
